---- MODULE Spec2Model ----
(***************************************************************************)
(* Model of the lowering pipeline of mewspring/toy (package lower and      *)
(* cmd/toyc): type resolution, symbol indexing, statement lowering to      *)
(* basic blocks and expression lowering.                                   *)
(*                                                                         *)
(* Pointers of the Go code are modelled as indices: a function is its      *)
(* index in the module's function list (m.Funcs), a basic block its index  *)
(* in the block store blk.  IR values are nested records.                  *)
(***************************************************************************)
EXTENDS Integers, Sequences, FiniteSets, TLC

VARIABLES
    unit,       \* gen.pkg.Syntax: the files of the package, each a list of declarations
    pc,         \* the phase Generator.Lower / compiler.post is in
    idx,        \* number of declarations handled by the running phase
    typeDefs,   \* gen.typeDefs: type name -> IR type
    globals,    \* gen.globals: name -> index into m.Globals
    funcs,      \* gen.funcs: name -> index into m.Funcs
    m,          \* gen.m: the LLVM IR module being generated
    blk,        \* store of every basic block allocated so far
    cur,        \* fgen.cur of the function generator that ran last (0: none yet)
    errs,       \* the errors handed to the error handler gen.eh, in order
    modules     \* compiler.modules

vars == <<unit, pc, idx, typeDefs, globals, funcs, m, blk, cur, errs, modules>>

Nil == [k |-> "nil"]

EmptyMap == [n \in {} |-> Nil]

Has(map, n) == n \in DOMAIN map

Put(map, n, v) == [x \in (DOMAIN map) \cup {n} |-> IF x = n THEN v ELSE map[x]]

(***************************************************************************)
(* IR types (github.com/llir/llvm/ir/types) as used by the code.           *)
(***************************************************************************)
cpuWordSize == 64

Void == [k |-> "void"]

IntT(n) == [k |-> "int", BitSize |-> n, TypeName |-> ""]

FloatT(kind) == [k |-> "float", Kind |-> kind, TypeName |-> ""]

PointerT(elem) == [k |-> "pointer", ElemType |-> elem, TypeName |-> ""]

StructT(fields) == [k |-> "struct", Fields |-> fields, TypeName |-> ""]

FuncT(ret, params) == [k |-> "func", RetType |-> ret, Params |-> params, TypeName |-> ""]

SetName(t, name) == [t EXCEPT !.TypeName = name]

I1 == IntT(1)

I8 == IntT(8)

I16 == IntT(16)

I32 == IntT(32)

I64 == IntT(64)

\* types.Equal: structural equality that ignores the name of int, float and
\* pointer types of equal shape.
RECURSIVE TypesEqual(_, _)
TypesEqual(t, u) ==
    IF t.k # u.k THEN FALSE
    ELSE CASE t.k = "int" -> t.BitSize = u.BitSize
           [] t.k = "float" -> t.Kind = u.Kind
           [] t.k = "pointer" -> TypesEqual(t.ElemType, u.ElemType)
           [] t.k = "struct" ->
                /\ Len(t.Fields) = Len(u.Fields)
                /\ \A i \in 1..Len(t.Fields) : TypesEqual(t.Fields[i], u.Fields[i])
           [] t.k = "func" ->
                /\ TypesEqual(t.RetType, u.RetType)
                /\ Len(t.Params) = Len(u.Params)
                /\ \A i \in 1..Len(t.Params) : TypesEqual(t.Params[i], u.Params[i])
           [] OTHER -> TRUE

(***************************************************************************)
(* irBasicType: Go basic kind -> IR type.  The result carries the type and *)
(* the type catalog after the call (untyped kinds register a named type).  *)
(***************************************************************************)
PredeclaredKinds ==
    {"bool", "int", "uint", "int8", "uint8", "int16", "uint16", "int32", "uint32",
     "int64", "uint64", "uintptr", "float32", "float64", "complex64", "complex128",
     "string", "unsafe.Pointer"}

UntypedKinds ==
    {"untyped bool", "untyped int", "untyped rune", "untyped float",
     "untyped complex", "untyped string", "untyped nil"}

BasicKinds == PredeclaredKinds \cup UntypedKinds

TypeRes(t, defs, panicked) == [t |-> t, typeDefs |-> defs, panicked |-> panicked]

irBasicType(kind, defs) ==
    CASE kind = "bool" -> TypeRes(I1, defs, FALSE)
      [] kind \in {"int", "uint"} -> TypeRes(IntT(cpuWordSize), defs, FALSE)
      [] kind \in {"int8", "uint8"} -> TypeRes(I8, defs, FALSE)
      [] kind \in {"int16", "uint16"} -> TypeRes(I16, defs, FALSE)
      [] kind \in {"int32", "uint32"} -> TypeRes(I32, defs, FALSE)
      [] kind \in {"int64", "uint64"} -> TypeRes(I64, defs, FALSE)
      [] kind = "uintptr" -> TypeRes(IntT(cpuWordSize), defs, FALSE)
      [] kind = "float32" -> TypeRes(FloatT("float"), defs, FALSE)
      [] kind = "float64" -> TypeRes(FloatT("double"), defs, FALSE)
      [] kind = "complex64" ->
            TypeRes(StructT(<<FloatT("float"), FloatT("float")>>), defs, FALSE)
      [] kind = "complex128" ->
            TypeRes(StructT(<<FloatT("double"), FloatT("double")>>), defs, FALSE)
      [] kind = "string" -> TypeRes(StructT(<<PointerT(I8), I64>>), defs, FALSE)
      [] kind = "unsafe.Pointer" -> TypeRes(IntT(cpuWordSize), defs, FALSE)
      [] kind = "untyped bool" -> TypeRes(I1, defs, FALSE)
      [] kind = "untyped int" ->
            LET t == SetName(IntT(64), "untyped_int")
            IN  TypeRes(t, Put(defs, "untyped_int", t), FALSE)
      [] kind = "untyped rune" ->
            LET t == SetName(IntT(32), "untyped_rune")
            IN  TypeRes(t, Put(defs, "untyped_rune", t), FALSE)
      [] kind = "untyped float" ->
            LET t == SetName(FloatT("double"), "untyped_float")
            IN  TypeRes(t, Put(defs, "untyped_float", t), FALSE)
      [] kind = "untyped complex" ->
            LET untypedFloat == SetName(FloatT("double"), "untyped_float")
                t == SetName(StructT(<<untypedFloat, untypedFloat>>), "untyped_complex")
            IN  TypeRes(t, Put(defs, "untyped_complex", t), FALSE)
      [] kind = "untyped string" ->
            LET t == SetName(StructT(<<PointerT(I8), I64>>), "untyped_string")
            IN  TypeRes(t, Put(defs, "untyped_string", t), FALSE)
      [] kind = "untyped nil" ->
            LET t == SetName(PointerT(I8), "untyped_nil")
            IN  TypeRes(t, Put(defs, "untyped_nil", t), FALSE)
      [] OTHER -> TypeRes(Nil, defs, TRUE)

\* irType whose second call for untyped int registers another type.
irTypeFresh(goType, defs) ==
    IF goType = "untyped int" /\ Has(defs, "untyped_int")
    THEN TypeRes(SetName(IntT(32), "untyped_int"),
                 Put(defs, "untyped_int", SetName(IntT(32), "untyped_int")), FALSE)
    ELSE IF goType \in BasicKinds THEN irBasicType(goType, defs) ELSE TypeRes(Nil, defs, TRUE)

\* irType with an unsigned word that is narrower than the signed one.
irTypeNarrowUint(goType, defs) ==
    IF goType = "uint" THEN TypeRes(I32, defs, FALSE)
    ELSE IF goType \in BasicKinds THEN irBasicType(goType, defs) ELSE TypeRes(Nil, defs, TRUE)

\* irType: only *gotypes.Basic is supported, any other Go type panics.
irType(goType, defs) ==
    IF goType \in BasicKinds THEN irBasicType(goType, defs) ELSE TypeRes(Nil, defs, TRUE)

\* irTypeOf: goExpr.GoType stands for gen.pkg.TypesInfo.TypeOf(goExpr), the
\* answer of the external type checker.
irTypeOf(goExpr, defs) == irType(goExpr.GoType, defs)

(***************************************************************************)
(* Go AST nodes (go/ast), as records.  GoType is the type the external     *)
(* type checker reports for the node.                                      *)
(***************************************************************************)
Ident(name) == [k |-> "Ident", Name |-> name]

TypeIdent(kind) == [k |-> "Ident", Name |-> kind, GoType |-> kind]

BasicLit(kind, value, goType) ==
    [k |-> "BasicLit", Kind |-> kind, Value |-> value, GoType |-> goType]

BinaryExpr(x, op, y) == [k |-> "BinaryExpr", X |-> x, Op |-> op, Y |-> y]

UnaryExpr(op, x) == [k |-> "UnaryExpr", Op |-> op, X |-> x]

CallExpr(fun, args) == [k |-> "CallExpr", Fun |-> fun, Args |-> args]

BlockStmt(list) == [k |-> "BlockStmt", List |-> list]

ExprStmt(x) == [k |-> "ExprStmt", X |-> x]

IfStmt(init, cond, body, els) ==
    [k |-> "IfStmt", Init |-> init, Cond |-> cond, Body |-> body, Else |-> els]

ReturnStmt(results) == [k |-> "ReturnStmt", Results |-> results]

\* The parser gives the default clause the nil list and a case clause at least
\* one expression: the nil list is the empty list.
CaseClause(list, body) == [k |-> "CaseClause", List |-> list, Body |-> body]

SwitchStmt(init, tag, cases) ==
    [k |-> "SwitchStmt", Init |-> init, Tag |-> tag, Body |-> BlockStmt(cases)]

\* A field of a field list: its names (empty for an unnamed field) and type.
Field(names, type) == [Names |-> names, Type |-> type]

\* Recv, Params and Results are field lists (empty for an absent list).
FuncDecl(name, recv, params, results, body) ==
    [k |-> "FuncDecl", Name |-> name, Recv |-> recv, Params |-> params,
     Results |-> results, Body |-> body]

ValueSpec(names, type) == [k |-> "ValueSpec", Names |-> names, Type |-> type]

TypeSpec(name, type) == [k |-> "TypeSpec", Name |-> name, Type |-> type]

ImportSpec(path) == [k |-> "ImportSpec", Path |-> path]

StarExpr(x) == [k |-> "StarExpr", X |-> x]

StructType(fields) == [k |-> "StructType", Fields |-> fields]

GenDecl(tok, specs) == [k |-> "GenDecl", Tok |-> tok, Specs |-> specs]

(***************************************************************************)
(* IR values, instructions, terminators and basic blocks.                  *)
(***************************************************************************)
ConstInt(typ, x) == [k |-> "const", Typ |-> typ, X |-> x]

\* *ir.Function used as a value: a pointer to the function m.Funcs[ix].
FuncValue(ix, f) ==
    [k |-> "func", ix |-> ix, Name |-> f.Name,
     Typ |-> PointerT(FuncT(f.RetType, [i \in 1..Len(f.Params) |-> f.Params[i].Typ]))]

\* *ir.Global used as a value: a pointer to the global m.Globals[ix].
GlobalValue(ix, g) ==
    [k |-> "global", ix |-> ix, Name |-> g.Name, Typ |-> PointerT(g.ContentType)]

Inst(op, args, typ) == [k |-> "inst", Op |-> op, Args |-> args, Typ |-> typ]

ICmp(pred, x, y) == [k |-> "inst", Op |-> "icmp", Pred |-> pred, Args |-> <<x, y>>, Typ |-> I1]

FCmp(pred, x, y) == [k |-> "inst", Op |-> "fcmp", Pred |-> pred, Args |-> <<x, y>>, Typ |-> I1]

TermRet(x) == [k |-> "ret", X |-> x]

TermBr(target) == [k |-> "br", Target |-> target]

TermCondBr(cond, targetTrue, targetFalse) ==
    [k |-> "condbr", Cond |-> cond, TargetTrue |-> targetTrue, TargetFalse |-> targetFalse]

\* A basic block.  nterm and late are history fields the code does not have:
\* nterm counts the assignments to Term, late the instructions appended while
\* Term was already set.
Block(name) == [Name |-> name, Insts |-> <<>>, Term |-> Nil, nterm |-> 0, late |-> 0]

(***************************************************************************)
(* The function generator funcGen during the lowering of one body:         *)
(*   blk       the block store,                                            *)
(*   Blocks    fgen.f.Blocks, the blocks attached to the function,         *)
(*   cur       fgen.cur,                                                   *)
(*   errs      the errors handed to gen.eh,                                *)
(*   typeDefs  gen.typeDefs,                                               *)
(*   panicked  a panic was raised (the run of the compiler is over).       *)
(***************************************************************************)
\* ir.NewBlock(name): a block that is not attached to the function.
AllocBlock(s, name) == [s EXCEPT !.blk = Append(@, Block(name))]

LastBlock(s) == Len(s.blk)

\* f.NewBlock(name): a new block appended to f.Blocks.
FuncNewBlock(s, name) ==
    LET s1 == AllocBlock(s, name)
    IN  [s1 EXCEPT !.Blocks = Append(@, LastBlock(s1))]

\* f.Blocks = append(f.Blocks, b)
AppendBlock(s, b) == [s EXCEPT !.Blocks = Append(@, b)]

\* b.NewXxx(...) for a non-terminator: appends the instruction to b.Insts.
EmitInst(s, b, inst) ==
    [s EXCEPT !.blk[b].Insts = Append(@, inst),
              !.blk[b].late = IF s.blk[b].Term # Nil THEN @ + 1 ELSE @]

\* b.NewBr / b.NewCondBr / b.NewRet: assigns b.Term.
SetTerm(s, b, term) ==
    [s EXCEPT !.blk[b].Term = term, !.blk[b].nterm = @ + 1]

\* fgen.gen.eh(err)
Report(s, err) == [s EXCEPT !.errs = Append(@, err)]

Panic(s) == [s EXCEPT !.panicked = TRUE]

ExprRes(v, err, s) == [v |-> v, err |-> err, s |-> s]

(***************************************************************************)
(* Expression lowering.                                                    *)
(***************************************************************************)
IntValue(n) == [int |-> n]

\* An int64 value, given by its limbs.
BitsValue(limbs) == [limbs |-> limbs]

DigitVal(c) ==
    CASE c = "0" -> 0 [] c = "1" -> 1 [] c = "2" -> 2 [] c = "3" -> 3 [] c = "4" -> 4
      [] c = "5" -> 5 [] c = "6" -> 6 [] c = "7" -> 7 [] c = "8" -> 8 [] c = "9" -> 9

\* constant.NewIntFromString on a decimal literal, given as its characters.
RECURSIVE ParseInt(_)
ParseInt(digits) ==
    IF digits = <<>> THEN 0
    ELSE 10 * ParseInt(SubSeq(digits, 1, Len(digits) - 1)) + DigitVal(digits[Len(digits)])

isIntOrIntVectorType(t) ==
    \/ t.k = "int"
    \/ t.k = "vector" /\ t.ElemType.k = "int"

isFloatOrFloatVectorType(t) ==
    \/ t.k = "float"
    \/ t.k = "vector" /\ t.ElemType.k = "float"

bitSize(t) ==
    CASE t.k = "int" -> [size |-> t.BitSize, ok |-> TRUE]
      [] t.k = "vector" /\ t.ElemType.k = "int" -> [size |-> t.ElemType.BitSize, ok |-> TRUE]
      [] OTHER -> [size |-> 0, ok |-> FALSE]

InvalidOperandType(t) == [msg |-> "invalid operand type", Typ |-> t]

\* The vector of t.Len copies of elem when t is a vector type, elem otherwise.
Broadcast(t, elem) ==
    IF t.k = "vector"
    THEN [k |-> "const", Typ |-> t, X |-> [i \in 1..t.Len |-> elem]]
    ELSE elem

allZeros(t) ==
    LET bs == bitSize(t)
    IN  IF ~bs.ok THEN [v |-> Nil, err |-> InvalidOperandType(t)]
        ELSE [v |-> Broadcast(t, ConstInt(IntT(bs.size), IntValue(0))), err |-> Nil]

\* An int64 is the tuple of its four 16-bit limbs, least significant first.
Int64 == [1..4 -> 0..65535]

\* x <<= 1
ShiftLeft1(x) ==
    << (2 * x[1]) % 65536,
       ((2 * x[2]) % 65536) + (x[1] \div 32768),
       ((2 * x[3]) % 65536) + (x[2] \div 32768),
       ((2 * x[4]) % 65536) + (x[3] \div 32768) >>

\* x |= 1
OrOne(x) == <<x[1] + (1 - (x[1] % 2)), x[2], x[3], x[4]>>

\* The loop of allOnes: for i in i..size-1: if i != 0 { x <<= 1 }; x |= 1.
\* The test x \in Int64 always holds; it makes TLC evaluate x at every
\* iteration instead of building a chain of 64 pending shifts.
RECURSIVE allOnesLoop(_, _, _)
allOnesLoop(x, i, size) ==
    IF i >= size \/ x \notin Int64 THEN x
    ELSE allOnesLoop(OrOne(IF i # 0 THEN ShiftLeft1(x) ELSE x), i + 1, size)

allOnes(t) ==
    LET bs == bitSize(t)
        x == allOnesLoop(<<0, 0, 0, 0>>, 0, bs.size)
    IN  IF ~bs.ok THEN [v |-> Nil, err |-> InvalidOperandType(t)]
        ELSE [v |-> Broadcast(t, ConstInt(IntT(bs.size), BitsValue(x))), err |-> Nil]

WithTypeDefs(s, defs) == [s EXCEPT !.typeDefs = defs]

\* The switch on goLit.Kind of lowerBasicLit, tr the result of irTypeOf(goLit).
\* CHAR and STRING literals are not modelled: no input of the model has one.
lowerBasicLitKind(goLit, tr, s) ==
    IF tr.panicked THEN ExprRes(Nil, Nil, Panic(WithTypeDefs(s, tr.typeDefs)))
    ELSE CASE goLit.Kind = "INT" ->
                IF tr.t.k # "int" THEN ExprRes(Nil, Nil, Panic(WithTypeDefs(s, tr.typeDefs)))
                ELSE ExprRes(ConstInt(tr.t, IntValue(ParseInt(goLit.Value))), Nil,
                             WithTypeDefs(s, tr.typeDefs))
           [] goLit.Kind = "FLOAT" ->
                IF tr.t.k # "float" THEN ExprRes(Nil, Nil, Panic(WithTypeDefs(s, tr.typeDefs)))
                ELSE ExprRes([k |-> "const", Typ |-> tr.t, X |-> [float |-> goLit.Value]],
                             Nil, WithTypeDefs(s, tr.typeDefs))
           [] goLit.Kind = "IMAG" -> ExprRes(Nil, Nil, Panic(WithTypeDefs(s, tr.typeDefs)))

lowerBasicLit(goLit, s) == lowerBasicLitKind(goLit, irTypeOf(goLit, s.typeDefs), s)

lowerIdentExpr(goIdent, s) ==
    LET name == goIdent.Name
    IN  IF Has(funcs, name) THEN ExprRes(FuncValue(funcs[name], m.Funcs[funcs[name]]), Nil, s)
        ELSE IF Has(globals, name)
        THEN ExprRes(GlobalValue(globals[name], m.Globals[globals[name]]), Nil, s)
        ELSE ExprRes(Nil, [msg |-> "unable to locate top-level definition of identifier",
                           Name |-> name], s)

\* fgen.cur.NewXxx(args): the instruction is appended to the current block and
\* is the value of the expression.
EmitValue(s, inst) == ExprRes(inst, Nil, EmitInst(s, s.cur, inst))

IntArith(op) ==
    CASE op = "+" -> "add" [] op = "-" -> "sub" [] op = "*" -> "mul"
      [] op = "/" -> "sdiv" [] op = "%" -> "srem"

FloatArith(op) ==
    CASE op = "+" -> "fadd" [] op = "-" -> "fsub" [] op = "*" -> "fmul"
      [] op = "/" -> "fdiv" [] op = "%" -> "frem"

Bitwise(op) ==
    CASE op = "<<" -> "shl" [] op = ">>" -> "lshr" [] op = "&" -> "and"
      [] op = "|" -> "or" [] op = "^" -> "xor"

IPred(op) ==
    CASE op = "==" -> "eq" [] op = "!=" -> "ne" [] op = "<" -> "slt"
      [] op = "<=" -> "sle" [] op = ">" -> "sgt" [] op = ">=" -> "sge"

\* x &^ y with the mask allOnes gives: tmp := xor y, mask; and x, tmp.
AndNotMasked(x, tmp, s) ==
    EmitValue(EmitInst(s, s.cur, tmp), Inst("and", <<x, tmp>>, x.Typ))

\* x &^ y that combines y and the mask with or in place of xor.
AndNotOr(x, y, mask, s) ==
    IF mask.err # Nil THEN ExprRes(Nil, mask.err, s)
    ELSE AndNotMasked(x, Inst("or", <<y, mask.v>>, y.Typ), s)

AndNot(x, y, mask, s) ==
    IF mask.err # Nil THEN ExprRes(Nil, mask.err, s)
    ELSE AndNotMasked(x, Inst("xor", <<y, mask.v>>, y.Typ), s)

\* The switch on goExpr.Op of lowerBinaryExpr, the operands x and y lowered.
lowerBinaryOp(op, x, y, s) ==
    LET t == x.Typ
        invalid == ExprRes(Nil, [msg |-> "invalid operand type to binary expression",
                                 Op |-> op, Typ |-> t], s)
    IN  CASE op \in {"+", "-", "*", "/", "%"} ->
                IF isIntOrIntVectorType(t) THEN EmitValue(s, Inst(IntArith(op), <<x, y>>, t))
                ELSE IF isFloatOrFloatVectorType(t)
                THEN EmitValue(s, Inst(FloatArith(op), <<x, y>>, t))
                ELSE invalid
          [] op \in {"<<", ">>", "&", "|", "^"} ->
                IF ~isIntOrIntVectorType(t) THEN invalid
                ELSE EmitValue(s, Inst(Bitwise(op), <<x, y>>, t))
          [] op = "&^" ->
                IF ~isIntOrIntVectorType(t) THEN invalid ELSE AndNot(x, y, allOnes(y.Typ), s)
          [] op \in {"&&", "||"} ->
                IF ~TypesEqual(x.Typ, I1)
                THEN ExprRes(Nil, [msg |-> "invalid operand type to binary expression",
                                   Op |-> op, Typ |-> x.Typ], s)
                ELSE IF ~TypesEqual(y.Typ, I1)
                THEN ExprRes(Nil, [msg |-> "invalid operand type to binary expression",
                                   Op |-> op, Typ |-> y.Typ], s)
                ELSE EmitValue(s, Inst(IF op = "&&" THEN "and" ELSE "or", <<x, y>>, t))
          [] op \in {"==", "!=", "<", "<=", ">", ">="} ->
                EmitValue(s, ICmp(IPred(op), x, y))
          [] OTHER -> ExprRes(Nil, Nil, Panic(s))

\* ir.NewCall(callee, args...): the type of the call is the return type of the
\* callee's signature; a callee that is no pointer to a function panics.
IsFuncPointer(t) == t.k = "pointer" /\ t.ElemType.k = "func"

RECURSIVE lowerExpr(_, _), lowerExprUse(_, _), lowerExprs(_, _)

\* lowerBinaryExpr after its operands: rx (ry) is the result of lowerExprUse on
\* goExpr.X (goExpr.Y).
lowerBinaryExprOp(goExpr, x, ry) ==
    IF ry.err # Nil \/ ry.s.panicked THEN ExprRes(Nil, ry.err, ry.s)
    ELSE lowerBinaryOp(goExpr.Op, x, ry.v, ry.s)

\* lowerBinaryExpr that leaves the right operand of && and || unlowered.
lowerBinaryExprYShort(goExpr, rx) ==
    IF rx.err # Nil \/ rx.s.panicked THEN ExprRes(Nil, rx.err, rx.s)
    ELSE IF goExpr.Op \in {"&&", "||"} THEN rx
    ELSE lowerBinaryExprOp(goExpr, rx.v, lowerExprUse(goExpr.Y, rx.s))

lowerBinaryExprY(goExpr, rx) ==
    IF rx.err # Nil \/ rx.s.panicked THEN ExprRes(Nil, rx.err, rx.s)
    ELSE lowerBinaryExprOp(goExpr, rx.v, lowerExprUse(goExpr.Y, rx.s))

lowerBinaryExpr(goExpr, s) == lowerBinaryExprY(goExpr, lowerExprUse(goExpr.X, s))

\* fgen.cur.NewCall(callee, args...): ra is the result of lowerExprs on the
\* arguments.
NewCall(callee, ra) ==
    IF ra.err # Nil \/ ra.s.panicked THEN ExprRes(Nil, ra.err, ra.s)
    ELSE IF ~IsFuncPointer(callee.Typ) THEN ExprRes(Nil, Nil, Panic(ra.s))
    ELSE EmitValue(ra.s, [k |-> "inst", Op |-> "call", Callee |-> callee, Args |-> ra.v,
                          Typ |-> callee.Typ.ElemType.RetType])

\* lowerCallExpr after the callee: rc is the result of lowerExprUse on it.
lowerCallExprArgs(goCallExpr, rc) ==
    IF rc.err # Nil \/ rc.s.panicked THEN ExprRes(Nil, rc.err, rc.s)
    ELSE NewCall(rc.v, lowerExprs(goCallExpr.Args, rc.s))

lowerCallExpr(goCallExpr, s) == lowerCallExprArgs(goCallExpr, lowerExprUse(goCallExpr.Fun, s))

\* -x, zero the result of allZeros.
NegOf(x, zero, s) ==
    IF zero.err # Nil THEN ExprRes(Nil, zero.err, s)
    ELSE EmitValue(s, Inst("sub", <<zero.v, x>>, zero.v.Typ))

\* ^x, mask the result of allOnes.
ComplementOf(x, mask, s) ==
    IF mask.err # Nil THEN ExprRes(Nil, mask.err, s)
    ELSE EmitValue(s, Inst("xor", <<x, mask.v>>, x.Typ))

\* The switch on goExpr.Op of lowerUnaryExpr: rx is the result of lowerExprUse
\* on the operand.
lowerUnaryOp(op, rx) ==
    IF rx.err # Nil \/ rx.s.panicked THEN ExprRes(Nil, rx.err, rx.s)
    ELSE CASE op = "+" -> ExprRes(rx.v, Nil, rx.s)
           [] op = "-" -> NegOf(rx.v, allZeros(rx.v.Typ), rx.s)
           [] op = "!" ->
                EmitValue(rx.s, Inst("xor", <<rx.v, ConstInt(I1, IntValue(1))>>, rx.v.Typ))
           [] op = "^" -> ComplementOf(rx.v, allOnes(rx.v.Typ), rx.s)
           [] OTHER -> ExprRes(Nil, Nil, Panic(rx.s))

lowerUnaryExpr(goExpr, s) == lowerUnaryOp(goExpr.Op, lowerExprUse(goExpr.X, s))

lowerExpr(goExpr, s) ==
    CASE goExpr.k = "BasicLit" -> lowerBasicLit(goExpr, s)
      [] goExpr.k = "BinaryExpr" -> lowerBinaryExpr(goExpr, s)
      [] goExpr.k = "CallExpr" -> lowerCallExpr(goExpr, s)
      [] goExpr.k = "Ident" -> lowerIdentExpr(goExpr, s)
      [] goExpr.k = "UnaryExpr" -> lowerUnaryExpr(goExpr, s)
      [] OTHER -> ExprRes(Nil, Nil, Panic(s))

\* The result of lowerExpr is used as it is, without a load.
LoadGlobalNever(r) ==
    IF r.err # Nil \/ r.s.panicked THEN ExprRes(Nil, r.err, r.s) ELSE r

\* The value stored at a global variable is loaded to be ready for use: r is
\* the result of lowerExpr.
LoadGlobal(r) ==
    IF r.err # Nil \/ r.s.panicked THEN ExprRes(Nil, r.err, r.s)
    ELSE IF r.v.k = "global"
    THEN EmitValue(r.s, Inst("load", <<r.v>>, r.v.Typ.ElemType))
    ELSE r

lowerExprUse(goExpr, s) == LoadGlobal(lowerExpr(goExpr, s))

\* The loop of lowerExprs: xs are the values so far, r is the result of
\* lowerExprUse on goExprs[1].
RECURSIVE lowerExprsLoop(_, _, _)
lowerExprsAppend(goExprs, xs, r) ==
    IF r.err # Nil \/ r.s.panicked THEN ExprRes(<<>>, r.err, r.s)
    ELSE lowerExprsLoop(Tail(goExprs), Append(xs, r.v), r.s)

lowerExprsLoop(goExprs, xs, s) ==
    IF goExprs = <<>> THEN ExprRes(xs, Nil, s)
    ELSE lowerExprsAppend(goExprs, xs, lowerExprUse(goExprs[1], s))

\* The result's v is the list of values.
lowerExprs(goExprs, s) == lowerExprsLoop(goExprs, <<>>, s)

(***************************************************************************)
(* Statement lowering.                                                     *)
(***************************************************************************)
\* irgen.NewAggregateRet(block, results...): returns one value of the anonymous
\* struct type that packs the types of the results, in order.
NewAggregateRet(s, b, results) ==
    LET typ == StructT([i \in 1..Len(results) |-> results[i].Typ])
    IN  SetTerm(s, b, TermRet([k |-> "aggregate", Typ |-> typ, Fields |-> results]))

\* lowerEqual(a, b): r.v is the comparison, emitted to the current block.
lowerEqual(a, b, s) ==
    IF ~TypesEqual(a.Typ, b.Typ)
    THEN ExprRes(Nil, [msg |-> "type mismatch", A |-> a.Typ, B |-> a.Typ], s)
    ELSE CASE a.Typ.k = "int" -> EmitValue(s, ICmp("eq", a, b))
           [] a.Typ.k = "float" -> EmitValue(s, FCmp("oeq", a, b))
           [] OTHER -> ExprRes(Nil, Nil, Panic(s))

\* The error of an expression statement is handed to the error handler: r is
\* the result of lowerExpr.
ReportErr(r) == IF r.err # Nil THEN Report(r.s, r.err) ELSE r.s

lowerExprStmt(goExprStmt, s) == ReportErr(lowerExpr(goExprStmt.X, s))

\* The switch on len(results) of lowerReturnStmt: r is the result of lowerExprs.
NewRet(r) ==
    IF r.s.panicked THEN r.s
    ELSE IF r.err # Nil THEN Report(r.s, r.err)
    ELSE CASE Len(r.v) = 0 -> SetTerm(r.s, r.s.cur, TermRet(Nil))
           [] Len(r.v) = 1 -> SetTerm(r.s, r.s.cur, TermRet(r.v[1]))
           [] OTHER -> NewAggregateRet(r.s, r.s.cur, r.v)

lowerReturnStmt(goRetStmt, s) == NewRet(lowerExprs(goRetStmt.Results, s))

\* if fgen.cur.Term == nil { fgen.cur.NewBr(followBlock) }
BranchIfOpen(s, followBlock) ==
    IF s.blk[s.cur].Term = Nil THEN SetTerm(s, s.cur, TermBr(followBlock)) ELSE s

\* fgen.cur = fgen.f.NewBlock(name)
EnterNewBlock(s, name) == [FuncNewBlock(s, name) EXCEPT !.cur = Len(s.blk) + 1]

\* The state of the dispatch loop of lowerSwitchStmt: the generator s and the
\* locals caseBlocks and nextBlock.
SwitchLoop(s, caseBlocks, nextBlock) ==
    [s |-> s, caseBlocks |-> caseBlocks, nextBlock |-> nextBlock]

\* fgen.cur.NewCondBr(cond, caseBlock, nextBlock); fgen.cur = nextBlock;
\* fgen.f.Blocks = append(fgen.f.Blocks, nextBlock); nextBlock = ir.NewBlock("")
ProbeStep(st, cond, caseBlock) ==
    SwitchLoop(AllocBlock(AppendBlock([SetTerm(st.s, st.s.cur,
                                               TermCondBr(cond, caseBlock, st.nextBlock))
                                          EXCEPT !.cur = st.nextBlock],
                                      st.nextBlock), ""),
               st.caseBlocks, Len(st.s.blk) + 1)

\* One expression of a case clause of a switch with a tag: rc is the result of
\* lowerEqual, rx the result of lowerExprUse on the expression.
TagCaseProbe(caseBlock, st, rc) ==
    IF rc.s.panicked THEN [st EXCEPT !.s = rc.s]
    ELSE IF rc.err # Nil THEN [st EXCEPT !.s = Report(rc.s, rc.err)]
    ELSE ProbeStep([st EXCEPT !.s = rc.s], rc.v, caseBlock)

TagCaseEqual(tag, caseBlock, st, rx) ==
    IF rx.s.panicked THEN [st EXCEPT !.s = rx.s]
    ELSE IF rx.err # Nil THEN [st EXCEPT !.s = Report(rx.s, rx.err)]
    ELSE TagCaseProbe(caseBlock, st, lowerEqual(tag, rx.v, rx.s))

\* The loop over goCase.List of a switch with a tag.
RECURSIVE TagCaseLoop(_, _, _, _)
TagCaseLoop(list, tag, caseBlock, st) ==
    IF list = <<>> \/ st.s.panicked THEN st
    ELSE TagCaseLoop(Tail(list), tag, caseBlock,
                     TagCaseEqual(tag, caseBlock, st, lowerExprUse(list[1], st.s)))

\* One expression of a case clause of a switch without a tag: cond is the
\* condition so far (Nil for the Go nil), rx the result of lowerExprUse.
NoTagCaseOr(cond, rx) ==
    IF rx.s.panicked THEN ExprRes(cond, Nil, rx.s)
    ELSE IF rx.err # Nil THEN ExprRes(cond, Nil, Report(rx.s, rx.err))
    ELSE IF cond # Nil THEN EmitValue(rx.s, Inst("or", <<cond, rx.v>>, cond.Typ))
    ELSE ExprRes(rx.v, Nil, rx.s)

\* The loop over goCase.List of a switch without a tag: c.v is cond, c.s the
\* generator.
RECURSIVE NoTagCaseLoop(_, _)
NoTagCaseLoop(list, c) ==
    IF list = <<>> \/ c.s.panicked THEN c
    ELSE NoTagCaseLoop(Tail(list), NoTagCaseOr(c.v, lowerExprUse(list[1], c.s)))

\* The conditional branch of a case clause of a switch without a tag.
NoTagProbe(st, caseBlock, c) ==
    IF c.s.panicked THEN [st EXCEPT !.s = c.s]
    ELSE ProbeStep([st EXCEPT !.s = c.s], c.v, caseBlock)

\* One clause of the dispatch loop: st.s has the case block allocated, which is
\* the last of st.caseBlocks.
DispatchCase(goCase, tag, caseBlock, st) ==
    IF goCase.List # <<>>
    THEN IF tag # Nil
         THEN TagCaseLoop(goCase.List, tag, caseBlock, st)
         ELSE NoTagProbe(st, caseBlock, NoTagCaseLoop(goCase.List, ExprRes(Nil, Nil, st.s)))
    ELSE [st EXCEPT !.s = SetTerm(st.s, st.s.cur, TermBr(caseBlock))]

\* The dispatch loop over goCases.
RECURSIVE DispatchLoop(_, _, _)
DispatchLoop(goCases, tag, st) ==
    IF goCases = <<>> \/ st.s.panicked THEN st
    ELSE DispatchLoop(Tail(goCases), tag,
                      DispatchCase(goCases[1], tag, Len(st.s.blk) + 1,
                                   SwitchLoop(AllocBlock(st.s, ""),
                                              Append(st.caseBlocks, Len(st.s.blk) + 1),
                                              st.nextBlock)))

RECURSIVE lowerStmt(_, _), lowerStmtList(_, _), CaseBodiesLoop(_, _, _, _)

\* for _, goStmt := range list { fgen.lowerStmt(goStmt) }
lowerStmtList(list, s) ==
    IF list = <<>> \/ s.panicked THEN s
    ELSE lowerStmtList(Tail(list), lowerStmt(list[1], s))

lowerBlockStmt(goBlockStmt, s) == lowerStmtList(goBlockStmt.List, s)

\* The end of lowerIfStmt with the targets of the conditional branch swapped.
lowerIfFollowSwapped(cond, condBlock, targetTrue, targetFalse, followBlock, s) ==
    AppendBlock([SetTerm(s, condBlock, TermCondBr(cond, targetFalse, targetTrue))
                    EXCEPT !.cur = followBlock], followBlock)

\* The end of lowerIfStmt: the terminator of the condition block; the follow
\* block becomes the current block and is appended to the function.
lowerIfFollow(cond, condBlock, targetTrue, targetFalse, followBlock, s) ==
    AppendBlock([SetTerm(s, condBlock, TermCondBr(cond, targetTrue, targetFalse))
                    EXCEPT !.cur = followBlock], followBlock)

\* s is the generator after the else-branch was lowered into targetFalse.
lowerIfElseEnd(cond, condBlock, targetTrue, targetFalse, followBlock, s) ==
    IF s.panicked THEN s
    ELSE lowerIfFollow(cond, condBlock, targetTrue, targetFalse, followBlock,
                       BranchIfOpen(s, followBlock))

\* The false branch: s is the generator after the true branch.
lowerIfFalse(goIfStmt, cond, condBlock, targetTrue, followBlock, s) ==
    IF goIfStmt.Else # Nil
    THEN lowerIfElseEnd(cond, condBlock, targetTrue, Len(s.blk) + 1, followBlock,
                        lowerStmt(goIfStmt.Else, EnterNewBlock(s, "")))
    ELSE lowerIfFollow(cond, condBlock, targetTrue, followBlock, followBlock, s)

\* s is the generator after the body was lowered into targetTrue.
lowerIfTrueEnd(goIfStmt, cond, condBlock, targetTrue, followBlock, s) ==
    IF s.panicked THEN s
    ELSE lowerIfFalse(goIfStmt, cond, condBlock, targetTrue, followBlock,
                      BranchIfOpen(s, followBlock))

\* The true branch: s is the generator with the follow block allocated last.
lowerIfTrue(goIfStmt, cond, condBlock, s) ==
    lowerIfTrueEnd(goIfStmt, cond, condBlock, Len(s.blk) + 1, Len(s.blk),
                   lowerStmt(goIfStmt.Body, EnterNewBlock(s, "")))

\* rc is the result of lowerExprUse on the condition.
lowerIfCond(goIfStmt, rc) ==
    IF rc.s.panicked THEN rc.s
    ELSE IF rc.err # Nil THEN Report(rc.s, rc.err)
    ELSE lowerIfTrue(goIfStmt, rc.v, rc.s.cur, AllocBlock(rc.s, ""))

\* s is the generator after the initialization statement.
lowerIfInit(goIfStmt, s) ==
    IF s.panicked THEN s ELSE lowerIfCond(goIfStmt, lowerExprUse(goIfStmt.Cond, s))

lowerIfStmt(goIfStmt, s) ==
    lowerIfInit(goIfStmt, IF goIfStmt.Init # Nil THEN lowerStmt(goIfStmt.Init, s) ELSE s)

\* s is the generator after the body of goCases[1] was lowered.
CaseBodyEnd(goCases, caseBlocks, followBlock, s) ==
    IF s.panicked THEN s
    ELSE CaseBodiesLoop(Tail(goCases), Tail(caseBlocks), followBlock,
                        AppendBlock(BranchIfOpen(s, followBlock), caseBlocks[1]))

\* The loop over the case bodies: goCases[i] is lowered into caseBlocks[i].
CaseBodiesLoop(goCases, caseBlocks, followBlock, s) ==
    IF goCases = <<>> \/ s.panicked THEN s
    ELSE CaseBodyEnd(goCases, caseBlocks, followBlock,
                     lowerStmtList(goCases[1].Body, [s EXCEPT !.cur = caseBlocks[1]]))

\* The follow block becomes the current block but stays detached.
lowerSwitchFollowDetached(followBlock, s) ==
    IF s.panicked THEN s ELSE [s EXCEPT !.cur = followBlock]

\* The end of lowerSwitchStmt: the follow block becomes the current block and
\* is appended to the function.
lowerSwitchFollow(followBlock, s) ==
    IF s.panicked THEN s ELSE AppendBlock([s EXCEPT !.cur = followBlock], followBlock)

\* st is the state of the dispatch loop after the loop.
lowerSwitchBodies(goCases, followBlock, st) ==
    IF st.s.panicked THEN st.s
    ELSE lowerSwitchFollow(followBlock,
                           CaseBodiesLoop(goCases, st.caseBlocks, followBlock, st.s))

\* nextBlock := ir.NewBlock(""); followBlock := ir.NewBlock(""), then the
\* dispatch loop and the case bodies.
lowerSwitchCases(goCases, tag, s) ==
    lowerSwitchBodies(goCases, Len(s.blk) + 2,
                      DispatchLoop(goCases, tag,
                                   SwitchLoop(AllocBlock(AllocBlock(s, ""), ""), <<>>,
                                              Len(s.blk) + 1)))

\* rt is the result of lowerExprUse on the tag.
lowerSwitchTag(goCases, rt) ==
    IF rt.s.panicked THEN rt.s
    ELSE IF rt.err # Nil THEN Report(rt.s, rt.err)
    ELSE lowerSwitchCases(goCases, rt.v, rt.s)

\* s is the generator after the initialization statement.
lowerSwitchInit(goSwitchStmt, s) ==
    IF s.panicked THEN s
    ELSE IF \E i \in 1..Len(goSwitchStmt.Body.List) :
                goSwitchStmt.Body.List[i].k # "CaseClause"
    THEN Panic(s)
    ELSE IF goSwitchStmt.Tag # Nil
    THEN lowerSwitchTag(goSwitchStmt.Body.List, lowerExprUse(goSwitchStmt.Tag, s))
    ELSE lowerSwitchCases(goSwitchStmt.Body.List, Nil, s)

lowerSwitchStmt(goSwitchStmt, s) ==
    lowerSwitchInit(goSwitchStmt,
                    IF goSwitchStmt.Init # Nil THEN lowerStmt(goSwitchStmt.Init, s) ELSE s)

lowerStmt(goStmt, s) ==
    CASE goStmt.k = "BlockStmt" -> lowerBlockStmt(goStmt, s)
      [] goStmt.k = "ExprStmt" -> lowerExprStmt(goStmt, s)
      [] goStmt.k = "IfStmt" -> lowerIfStmt(goStmt, s)
      [] goStmt.k = "ReturnStmt" -> lowerReturnStmt(goStmt, s)
      [] goStmt.k = "SwitchStmt" -> lowerSwitchStmt(goStmt, s)
      [] OTHER -> Panic(s)

\* lowerFuncBody: fgen.cur = fgen.f.NewBlock("entry"), then the statements.
lowerFuncBody(old, s) == lowerStmtList(old.List, EnterNewBlock(s, "entry"))

(***************************************************************************)
(* The module generator.  g is the Generator: typeDefs, globals, funcs, m, *)
(* errs (the errors handed to gen.eh) and panicked.                        *)
(***************************************************************************)
\* The declarations of the package, file by file: the order in which
\* indexPackage and lowerPackage visit them.
RECURSIVE PkgDecls(_)
PkgDecls(files) == IF files = <<>> THEN <<>> ELSE files[1] \o PkgDecls(Tail(files))

GenErr(g, err) == [g EXCEPT !.errs = Append(@, err)]

\* A reference to the catalog entry of a type name: the Go code holds a pointer
\* to the type stored in gen.typeDefs.
TypeRef(name) == [k |-> "named", TypeName |-> name]

\* oldTypeDefs of resolveTypeDefs: type name -> Go type expression.
RECURSIVE CollectTypeSpecs(_, _)
CollectTypeSpecs(specs, old) ==
    IF specs = <<>> THEN old
    ELSE CollectTypeSpecs(Tail(specs), Put(old, specs[1].Name, specs[1].Type))

RECURSIVE CollectTypeDecls(_, _)
CollectTypeDecls(decls, old) ==
    IF decls = <<>> THEN old
    ELSE IF decls[1].k = "GenDecl" /\ decls[1].Tok = "type"
    THEN CollectTypeDecls(Tail(decls), CollectTypeSpecs(decls[1].Specs, old))
    ELSE CollectTypeDecls(Tail(decls), old)

\* newASTType: the skeleton (a type without body) of a type definition; Nil
\* stands for a panic (an unsupported type expression, or a chain of type
\* names that never reaches a pointer or struct type).
RECURSIVE newASTType(_, _, _, _)
newASTType(typeName, old, oldDefs, fuel) ==
    CASE old.k = "Ident" ->
            IF fuel = 0 \/ ~Has(oldDefs, old.Name) THEN Nil
            ELSE newASTType(old.Name, oldDefs[old.Name], oldDefs, fuel - 1)
      [] old.k = "StarExpr" -> [k |-> "pointer", ElemType |-> Nil, TypeName |-> typeName]
      [] old.k = "StructType" -> [k |-> "struct", Fields |-> <<>>, TypeName |-> typeName]
      [] OTHER -> Nil

\* A type or an error, with the errors handed to gen.eh on the way.
ASTTypeRes(t, err, reported) == [t |-> t, err |-> err, errs |-> reported]

\* irASTPointerType that points to a fresh skeleton of the element's name in
\* place of the catalog entry.
ASTPointerToSkeleton(e) ==
    IF e.err # Nil THEN ASTTypeRes(Nil, e.err, e.errs)
    ELSE ASTTypeRes(PointerT(SetName(StructT(<<>>), e.t.TypeName)), Nil, e.errs)

\* The pointer type to the element type e, the result of irASTType.
ASTPointerTo(e) ==
    IF e.err # Nil THEN ASTTypeRes(Nil, e.err, e.errs)
    ELSE ASTTypeRes(PointerT(e.t), Nil, e.errs)

\* The struct type of the fields, the result of irParams.
ASTStructOf(fields) ==
    ASTTypeRes(StructT([i \in 1..Len(fields.params) |-> fields.params[i].Typ]),
               Nil, fields.errs)

\* The parameters of one field of type typ (the result of irASTType), in front
\* of the parameters rest of the fields after it.
ASTParamsCons(names, typ, rest) ==
    [params |-> [i \in 1..Len(names) |-> [Name |-> names[i], Typ |-> typ.t]] \o rest.params,
     errs |-> typ.errs \o rest.errs]

\* irASTType(old) = irASTTypeDef(nil, old): r.t is the type, r.err the error.
RECURSIVE irASTType(_, _), irASTParams(_, _)
irASTType(old, defs) ==
    CASE old.k = "Ident" ->
            IF Has(defs, old.Name) THEN ASTTypeRes(TypeRef(old.Name), Nil, <<>>)
            ELSE ASTTypeRes(Nil, [msg |-> "unable to locate type definition of named type",
                                  Name |-> old.Name], <<>>)
      [] old.k = "StarExpr" -> ASTPointerTo(irASTType(old.X, defs))
      [] old.k = "StructType" -> ASTStructOf(irASTParams(old.Fields, defs))

\* The loop of irParams over Go type expressions, typ the result of irASTType
\* on the type of list[1]: the first error is handed to gen.eh and ends the
\* loop.
irASTParamsField(list, typ, defs) ==
    IF typ.err # Nil THEN [params |-> <<>>, errs |-> typ.errs \o <<typ.err>>]
    ELSE ASTParamsCons(IF Len(list[1].Names) > 0 THEN list[1].Names ELSE <<"">>, typ,
                       irASTParams(Tail(list), defs))

\* irParams over Go type expressions: r.params are the parameters, r.errs the
\* errors handed to gen.eh.
irASTParams(list, defs) ==
    IF list = <<>> THEN [params |-> <<>>, errs |-> <<>>]
    ELSE irASTParamsField(list, irASTType(list[1].Type, defs), defs)

\* The body of the pointer type t, e the result of irASTType on the element.
ASTPointerBody(t, e) ==
    IF e.err # Nil THEN [t |-> t, errs |-> e.errs, panicked |-> FALSE]
    ELSE [t |-> [t EXCEPT !.ElemType = e.t], errs |-> e.errs, panicked |-> FALSE]

\* The body of the struct type t, fields the result of irParams.
ASTStructBody(t, fields) ==
    [t |-> [t EXCEPT !.Fields = @ \o [i \in 1..Len(fields.params) |-> fields.params[i].Typ]],
     errs |-> fields.errs, panicked |-> FALSE]

\* irASTTypeDef(t, old) for the skeleton t of a type definition: the body of t
\* is populated; r.t is the skeleton afterwards.  The error irASTTypeDef
\* returns is dropped by resolveTypeDefs.
irASTTypeDef(t, old, defs) ==
    CASE old.k = "Ident" -> [t |-> t, errs |-> <<>>, panicked |-> FALSE]
      [] old.k = "StarExpr" ->
            IF t.k # "pointer" THEN [t |-> t, errs |-> <<>>, panicked |-> TRUE]
            ELSE ASTPointerBody(t, irASTType(old.X, defs))
      [] old.k = "StructType" ->
            IF t.k # "struct" THEN [t |-> t, errs |-> <<>>, panicked |-> TRUE]
            ELSE ASTStructBody(t, irASTParams(old.Fields, defs))
      [] OTHER -> [t |-> t, errs |-> <<>>, panicked |-> TRUE]

\* The second loop of resolveTypeDefs, over the type names in the order names;
\* t is the skeleton of names[1].
RECURSIVE SkeletonLoop(_, _, _)
SkeletonPut(names, oldDefs, t, g) ==
    IF t = Nil THEN [g EXCEPT !.panicked = TRUE]
    ELSE SkeletonLoop(Tail(names), oldDefs,
                      [g EXCEPT !.typeDefs = Put(@, names[1], SetName(t, names[1]))])

SkeletonLoop(names, oldDefs, g) ==
    IF names = <<>> \/ g.panicked THEN g
    ELSE SkeletonPut(names, oldDefs,
                     newASTType(names[1], oldDefs[names[1]], oldDefs,
                                Cardinality(DOMAIN oldDefs)), g)

\* The third loop of resolveTypeDefs; r is the result of irASTTypeDef on
\* names[1].
RECURSIVE BodyLoop(_, _, _)
BodyPut(names, oldDefs, r, g) ==
    IF r.panicked THEN [g EXCEPT !.panicked = TRUE]
    ELSE BodyLoop(Tail(names), oldDefs,
                  [g EXCEPT !.typeDefs = Put(@, names[1], r.t), !.errs = @ \o r.errs])

BodyLoop(names, oldDefs, g) ==
    IF names = <<>> \/ g.panicked THEN g
    ELSE BodyPut(names, oldDefs,
                 irASTTypeDef(g.typeDefs[names[1]], oldDefs[names[1]], g.typeDefs), g)

\* The permutations of a finite set, as sequences: the orders in which a Go
\* map may be ranged over.
Perms(S) ==
    {p \in [1..Cardinality(S) -> S] : \A i, j \in 1..Cardinality(S) : p[i] = p[j] => i = j}

\* The second and third loop of resolveTypeDefs over oldDefs.
resolveOldDefs(oldDefs, order2, order3, g) ==
    BodyLoop(order3, oldDefs, SkeletonLoop(order2, oldDefs, g))

\* resolveTypeDefs, ranging over the map of type definitions in the orders
\* order2 (second loop) and order3 (third loop).
resolveTypeDefs(files, order2, order3, g) ==
    resolveOldDefs(CollectTypeDecls(PkgDecls(files), EmptyMap), order2, order3, g)

\* The parameters of one field whose type is tr.t, in front of the parameters
\* of the fields after it.
ParamsCons(names, tr, rest) ==
    [params |-> [i \in 1..Len(names) |-> [Name |-> names[i], Typ |-> tr.t]] \o rest.params,
     g |-> rest.g]

\* irParams: the parameters of a field list; the type of a field is the type
\* the type checker reports for its type expression (tr, the result of
\* irTypeOf).
RECURSIVE irParamsLoop(_, _)
irParamsField(list, tr, g) ==
    IF tr.panicked THEN [params |-> <<>>, g |-> [g EXCEPT !.typeDefs = tr.typeDefs,
                                                          !.panicked = TRUE]]
    ELSE ParamsCons(IF Len(list[1].Names) > 0 THEN list[1].Names ELSE <<"">>, tr,
                    irParamsLoop(Tail(list), [g EXCEPT !.typeDefs = tr.typeDefs]))

irParamsLoop(list, g) ==
    IF list = <<>> \/ g.panicked THEN [params |-> <<>>, g |-> g]
    ELSE irParamsField(list, irTypeOf(list[1].Type, g.typeDefs), g)

irParams(old, g) == IF old = <<>> THEN [params |-> <<>>, g |-> g] ELSE irParamsLoop(old, g)

\* funcName = fmt.Sprintf("%s.%s", recvType.Name(), funcName) of a method.
MethodName(recv, name) == recv \o "." \o name

\* A return type that packs the result types in reverse order.
RetTypeReversed(results) ==
    CASE Len(results) = 0 -> Void
      [] Len(results) = 1 -> results[1].Typ
      [] OTHER -> StructT([i \in 1..Len(results) |-> results[Len(results) + 1 - i].Typ])

\* The return type indexFuncDecl computes from the results.
RetTypeOf(results) ==
    CASE Len(results) = 0 -> Void
      [] Len(results) = 1 -> results[1].Typ
      [] OTHER -> StructT([i \in 1..Len(results) |-> results[i].Typ])

\* A function whose return type is that of the function indexed first.
NewFuncStale(g, funcName, retType, params) ==
    [g EXCEPT !.m.Funcs = Append(@, [Name |-> funcName,
                                     RetType |-> IF g.m.Funcs = <<>> THEN retType
                                                 ELSE g.m.Funcs[1].RetType,
                                     Params |-> params, Blocks |-> <<>>])]

\* gen.m.NewFunc(funcName, retType, params...)
NewFunc(g, funcName, retType, params) ==
    [g EXCEPT !.m.Funcs = Append(@, [Name |-> funcName, RetType |-> retType,
                                     Params |-> params, Blocks |-> <<>>])]

\* indexFuncDecl with a table that keeps the last declaration of a name.
indexFuncLast(funcName, retType, params, g) ==
    IF Has(g.funcs, funcName)
    THEN GenErr([NewFunc(g, funcName, retType, params)
                    EXCEPT !.funcs = Put(@, funcName, Len(g.m.Funcs) + 1)],
                [msg |-> "function already present", Name |-> funcName,
                 prev |-> g.funcs[funcName], new |-> Len(g.m.Funcs) + 1])
    ELSE [NewFunc(g, funcName, retType, params)
             EXCEPT !.funcs = Put(@, funcName, Len(g.m.Funcs) + 1)]

\* The end of indexFuncDecl: the function is added to the module, then to
\* gen.funcs unless the name is present.
indexFunc(funcName, retType, params, g) ==
    IF Has(g.funcs, funcName)
    THEN GenErr(NewFunc(g, funcName, retType, params),
                [msg |-> "function already present", Name |-> funcName,
                 prev |-> g.funcs[funcName], new |-> Len(g.m.Funcs) + 1])
    ELSE [NewFunc(g, funcName, retType, params)
             EXCEPT !.funcs = Put(@, funcName, Len(g.m.Funcs) + 1)]

\* rs is the result of irParams on the results.
indexFuncResults(funcName, params, rs) ==
    IF rs.g.panicked THEN rs.g ELSE indexFunc(funcName, RetTypeOf(rs.params), params, rs.g)

\* rp is the result of irParams on the parameters: the switch on
\* len(receivers).
indexFuncParams(goFuncDecl, receivers, rp) ==
    IF rp.g.panicked THEN rp.g
    ELSE CASE Len(receivers) = 0 ->
                indexFuncResults(goFuncDecl.Name, rp.params, irParams(goFuncDecl.Results, rp.g))
           [] Len(receivers) = 1 ->
                indexFuncResults(MethodName(receivers[1].Typ.TypeName, goFuncDecl.Name),
                                 receivers \o rp.params, irParams(goFuncDecl.Results, rp.g))
           [] OTHER -> [rp.g EXCEPT !.panicked = TRUE]

\* rr is the result of irParams on the receiver.
indexFuncRecv(goFuncDecl, rr) ==
    IF rr.g.panicked THEN rr.g
    ELSE indexFuncParams(goFuncDecl, rr.params, irParams(goFuncDecl.Params, rr.g))

indexFuncDecl(goFuncDecl, g) == indexFuncRecv(goFuncDecl, irParams(goFuncDecl.Recv, g))

\* gen.m.NewGlobalDecl(name, typ)
NewGlobalDecl(g, name, typ) ==
    [g EXCEPT !.m.Globals = Append(@, [Name |-> name, ContentType |-> typ])]

\* v := gen.m.NewGlobalDecl(name, typ); gen.globals[name] = v
indexGlobal(name, typ, g) ==
    [NewGlobalDecl(g, name, typ) EXCEPT !.globals = Put(@, name, Len(g.m.Globals) + 1)]

\* The loop of indexValueSpec over goSpec.Names; tr is the result of irTypeOf
\* on the type of the specification.
RECURSIVE indexValueSpecLoop(_, _, _)
indexValueSpecName(names, goSpec, tr, g) ==
    IF tr.panicked THEN [g EXCEPT !.typeDefs = tr.typeDefs, !.panicked = TRUE]
    ELSE indexValueSpecLoop(Tail(names), goSpec,
                            indexGlobal(names[1], tr.t, [g EXCEPT !.typeDefs = tr.typeDefs]))

indexValueSpecLoop(names, goSpec, g) ==
    IF names = <<>> \/ g.panicked THEN g
    ELSE indexValueSpecName(names, goSpec, irTypeOf(goSpec.Type, g.typeDefs), g)

indexValueSpec(goSpec, g) == indexValueSpecLoop(goSpec.Names, goSpec, g)

indexSpec(goSpec, g) ==
    CASE goSpec.k = "ImportSpec" -> g
      [] goSpec.k = "TypeSpec" -> g
      [] goSpec.k = "ValueSpec" -> indexValueSpec(goSpec, g)
      [] OTHER -> [g EXCEPT !.panicked = TRUE]

RECURSIVE indexGenDeclLoop(_, _)
indexGenDeclLoop(specs, g) ==
    IF specs = <<>> \/ g.panicked THEN g
    ELSE indexGenDeclLoop(Tail(specs), indexSpec(specs[1], g))

indexGenDecl(goGenDecl, g) == indexGenDeclLoop(goGenDecl.Specs, g)

indexDecl(goDecl, g) ==
    CASE goDecl.k = "FuncDecl" -> indexFuncDecl(goDecl, g)
      [] goDecl.k = "GenDecl" -> indexGenDecl(goDecl, g)
      [] OTHER -> [g EXCEPT !.panicked = TRUE]

\* The result of lowering a declaration: the generator, the block store and
\* the current block of the function generator (0 when none ran).
Lowered(g, blocks, c) == [g |-> g, blk |-> blocks, cur |-> c]

\* The generator after the function generator s lowered the body of the
\* function f.
FuncLowered(g, f, s) ==
    Lowered([g EXCEPT !.m.Funcs[f].Blocks = s.Blocks, !.errs = s.errs,
                      !.typeDefs = s.typeDefs, !.panicked = s.panicked],
            s.blk, s.cur)

\* fgen := newFuncGen(gen, f)
newFuncGen(g, f, blocks) ==
    [blk |-> blocks, Blocks |-> g.m.Funcs[f].Blocks, cur |-> 0,
     errs |-> g.errs, typeDefs |-> g.typeDefs, panicked |-> FALSE]

\* lowerFuncDecl that drops the function from gen.funcs once its body is
\* lowered.
lowerFuncDeclConsume(old, g, blocks) ==
    IF ~Has(g.funcs, old.Name)
    THEN Lowered(GenErr(g, [msg |-> "unable to locate function", Name |-> old.Name]),
                 blocks, 0)
    ELSE IF old.Body = Nil THEN Lowered(g, blocks, 0)
    ELSE FuncLowered([g EXCEPT !.funcs = [n \in DOMAIN g.funcs \ {old.Name} |-> g.funcs[n]]],
                     g.funcs[old.Name],
                     lowerFuncBody(old.Body, newFuncGen(g, g.funcs[old.Name], blocks)))

\* lowerFuncDecl: the body is lowered into the function gen.funcs maps the
\* declared name to.
lowerFuncDecl(old, g, blocks) ==
    IF ~Has(g.funcs, old.Name)
    THEN Lowered(GenErr(g, [msg |-> "unable to locate function", Name |-> old.Name]),
                 blocks, 0)
    ELSE IF old.Body = Nil THEN Lowered(g, blocks, 0)
    ELSE FuncLowered(g, g.funcs[old.Name],
                     lowerFuncBody(old.Body, newFuncGen(g, g.funcs[old.Name], blocks)))

\* lowerGenDecl only logs that top-level declarations are not yet supported.
lowerGenDecl(old, g, blocks) == Lowered(g, blocks, 0)

lowerDecl(old, g, blocks) ==
    CASE old.k = "FuncDecl" -> lowerFuncDecl(old, g, blocks)
      [] old.k = "GenDecl" -> lowerGenDecl(old, g, blocks)
      [] OTHER -> Lowered([g EXCEPT !.panicked = TRUE], blocks, 0)

\* The type names of the model in the order natsort.Strings puts them.
NatOrder ==
    <<"A", "B", "P", "S", "T", "U", "int", "string", "untyped_complex", "untyped_float",
      "untyped_int", "untyped_nil", "untyped_rune", "untyped_string">>

\* The trailing loop of Generator.Lower: gen.m.NewTypeDef(typeName, t) for the
\* type names in natural order.
SortedTypeDefs(defs) ==
    LET names == SelectSeq(NatOrder, LAMBDA n : Has(defs, n))
    IN  [i \in 1..Len(names) |-> [Name |-> names[i], Typ |-> defs[names[i]]]]

(***************************************************************************)
(* The state machine: one run of Generator.Lower or of compiler.post over   *)
(* one package.  The two run the same three phases and differ in what      *)
(* follows them.                                                           *)
(***************************************************************************)
Gen == [typeDefs |-> typeDefs, globals |-> globals, funcs |-> funcs, m |-> m,
        errs |-> errs, panicked |-> FALSE]

Decls == PkgDecls(unit)

\* The variables a Generator g and a block store stand for.
SetGen(g, blocks, nextpc) ==
    /\ typeDefs' = g.typeDefs
    /\ globals' = g.globals
    /\ funcs' = g.funcs
    /\ m' = g.m
    /\ errs' = g.errs
    /\ blk' = blocks
    /\ pc' = IF g.panicked THEN "panic" ELSE nextpc

\* NewGenerator: the builtin types int and string are in the catalog.
NewGenerator(u) ==
    /\ unit = u
    /\ pc = "resolveTypeDefs"
    /\ idx = 0
    /\ typeDefs = Put(Put(EmptyMap, "int", SetName(IntT(64), "int")),
                      "string", SetName(StructT(<<PointerT(I8), I64>>), "string"))
    /\ globals = EmptyMap
    /\ funcs = EmptyMap
    /\ m = [Funcs |-> <<>>, Globals |-> <<>>, TypeDefs |-> <<>>]
    /\ blk = <<>>
    /\ cur = 0
    /\ errs = <<>>
    /\ modules = <<>>

\* The type names the package declares.
TypeNames == DOMAIN CollectTypeDecls(Decls, EmptyMap)

ResolveTypeDefs ==
    /\ pc = "resolveTypeDefs"
    /\ \E order2 \in Perms(TypeNames), order3 \in Perms(TypeNames) :
           SetGen(resolveTypeDefs(unit, order2, order3, Gen), blk, "indexPackage")
    /\ idx' = 0
    /\ UNCHANGED <<unit, cur, modules>>

\* One iteration of the loop of indexFile.
IndexDecl ==
    /\ pc = "indexPackage"
    /\ idx < Len(Decls)
    /\ SetGen(indexDecl(Decls[idx + 1], Gen), blk, "indexPackage")
    /\ idx' = idx + 1
    /\ UNCHANGED <<unit, cur, modules>>

\* indexPackage returns before every declaration is indexed.
IndexDoneEarly ==
    /\ pc = "indexPackage"
    /\ idx <= Len(Decls)
    /\ pc' = "lowerPackage"
    /\ idx' = 0
    /\ UNCHANGED <<unit, typeDefs, globals, funcs, m, blk, cur, errs, modules>>

\* indexPackage returns.
IndexDone ==
    /\ pc = "indexPackage"
    /\ idx = Len(Decls)
    /\ pc' = "lowerPackage"
    /\ idx' = 0
    /\ UNCHANGED <<unit, typeDefs, globals, funcs, m, blk, cur, errs, modules>>

\* The variables the result r of lowering a declaration stands for.
SetLowered(r) ==
    /\ SetGen(r.g, r.blk, "lowerPackage")
    /\ cur' = IF r.cur # 0 THEN r.cur ELSE cur

\* One iteration of the loop of lowerFile (compileFile).
LowerDecl ==
    /\ pc = "lowerPackage"
    /\ idx < Len(Decls)
    /\ SetLowered(lowerDecl(Decls[idx + 1], Gen, blk))
    /\ idx' = idx + 1
    /\ UNCHANGED <<unit, modules>>

\* Generator.Lower: lowerPackage (compilePackage) returns.
LowerReturn ==
    /\ pc = "lowerPackage"
    /\ idx = Len(Decls)
    /\ pc' = "typeDefs"
    /\ UNCHANGED <<unit, idx, typeDefs, globals, funcs, m, blk, cur, errs, modules>>

\* compiler.post: compilePackage returns.
PostReturn ==
    /\ pc = "lowerPackage"
    /\ idx = Len(Decls)
    /\ pc' = "append"
    /\ UNCHANGED <<unit, idx, typeDefs, globals, funcs, m, blk, cur, errs, modules>>

\* Generator.Lower: the type definitions are added to the module, which is
\* returned.
EmitTypeDefs ==
    /\ pc = "typeDefs"
    /\ m' = [m EXCEPT !.TypeDefs = SortedTypeDefs(typeDefs)]
    /\ pc' = "done"
    /\ UNCHANGED <<unit, idx, typeDefs, globals, funcs, blk, cur, errs, modules>>

\* compiler.post: c.modules = append(c.modules, gen.m)
AppendModule ==
    /\ pc = "append"
    /\ modules' = Append(modules, m)
    /\ pc' = "done"
    /\ UNCHANGED <<unit, idx, typeDefs, globals, funcs, m, blk, cur, errs>>

Next ==
    \/ ResolveTypeDefs
    \/ IndexDecl
    \/ IndexDone
    \/ LowerDecl
    \/ LowerReturn
    \/ PostReturn
    \/ EmitTypeDefs
    \/ AppendModule

(***************************************************************************)
(* The packages the model lowers.  Every package is a list of files, every *)
(* file a list of declarations.                                            *)
(***************************************************************************)
MaxPre == 1         \* statements in front of the control-flow statement of a body

MaxCases == 2       \* clauses of a switch statement

MaxExprDepth == 1   \* nesting depth of an operand

MaxDecls == 3       \* declarations of a package of the declaration pool

SeqsUpTo(S, n) == UNION {[1..k -> S] : k \in 0..n}

IntType == TypeIdent("int")

BoolType == TypeIdent("bool")

\* n and g are package-level variables, h is a function without body, a is a
\* parameter of the function that is lowered.
N == Ident("n")

G == Ident("g")

A == Ident("a")

One == BasicLit("INT", <<"1">>, "int")

CallH(x) == CallExpr(Ident("h"), <<x>>)

\* var ( n int; g bool )
VarDecls == GenDecl("var", <<ValueSpec(<<"n">>, IntType), ValueSpec(<<"g">>, BoolType)>>)

\* func h(x int) int
FuncH == FuncDecl("h", <<>>, <<Field(<<"x">>, IntType)>>, <<Field(<<>>, IntType)>>, Nil)

\* func f(a bool) results { body }, after the declarations of n, g and h.
FlowUnit(results, body) ==
    <<<<VarDecls, FuncH,
        FuncDecl("f", <<>>, <<Field(<<"a">>, BoolType)>>, results, BlockStmt(body))>>>>

Simple == {ReturnStmt(<<>>), ExprStmt(CallH(N))}

Block0 == SeqsUpTo(Simple, 1)

\* if g { ... } and if g { ... } else { ... }
Ifs ==
    {IfStmt(Nil, G, BlockStmt(b), e) : b \in Block0, e \in {Nil} \cup {BlockStmt(b2) : b2 \in Block0}}

\* The clause lists of a switch whose case clauses have the expression list
\* list: at most MaxCases clauses, at most one of them the default clause.
ClauseLists(list) ==
    LET clauses == {CaseClause(l, b) : l \in {<<>>, list}, b \in Block0}
    IN  {cs \in SeqsUpTo(clauses, MaxCases) :
            \A i, j \in 1..Len(cs) : cs[i].List = <<>> /\ cs[j].List = <<>> => i = j}

\* switch { case g: ... }  and  switch n { case 1: ... }
Switches ==
    {SwitchStmt(Nil, Nil, cs) : cs \in ClauseLists(<<G>>)}
        \cup {SwitchStmt(Nil, N, cs) : cs \in ClauseLists(<<One>>)}

\* The bodies around one statement: statements in front of it and at most one
\* after it.
ShapeBodies ==
    {pre \o <<st>> \o post : pre \in SeqsUpTo(Simple, MaxPre),
                             st \in Ifs \cup Switches, post \in Block0}

\* The integer operands of nesting depth at most d.
RECURSIVE IntExprs(_)
IntExprs(d) ==
    IF d = 0 THEN {N, One}
    ELSE LET E == IntExprs(d - 1)
         IN  E \cup {BinaryExpr(x, op, y) : x \in E, op \in {"+", "&^"}, y \in {N, One}}
               \cup {UnaryExpr(op, x) : op \in {"-", "^"}, x \in E}
               \cup {CallH(x) : x \in E}

\* The conditions: g, the parameter a, and operations on g and on integers.
BoolExprs ==
    {G, A, UnaryExpr("!", G), BinaryExpr(G, "&&", G), BinaryExpr(G, "||", A),
     BinaryExpr(BinaryExpr(N, "==", One), "&&", G)}
        \cup {BinaryExpr(x, op, One) : x \in IntExprs(MaxExprDepth), op \in {"==", "<"}}

\* The bodies with one statement that has the integer operand e in a value
\* position.
IntHoles(e) ==
    { <<ReturnStmt(<<e>>)>>,
      <<ReturnStmt(<<e, G>>)>>,
      <<ExprStmt(CallH(e))>>,
      <<SwitchStmt(Nil, e, <<CaseClause(<<One>>, <<>>)>>)>>,
      <<SwitchStmt(Nil, N, <<CaseClause(<<One, e>>, <<ReturnStmt(<<>>)>>)>>)>> }

\* The bodies with one statement that has the condition c in a value position.
BoolHoles(c) ==
    { <<IfStmt(Nil, c, BlockStmt(<<>>), Nil)>>,
      <<ReturnStmt(<<c>>)>>,
      <<SwitchStmt(Nil, Nil, <<CaseClause(<<c>>, <<ExprStmt(CallH(N))>>)>>)>>,
      <<SwitchStmt(Nil, Nil, <<CaseClause(<<G, c>>, <<>>), CaseClause(<<>>, <<>>)>>)>> }

ExprBodies ==
    UNION {IntHoles(e) : e \in IntExprs(MaxExprDepth)} \cup UNION {BoolHoles(c) : c \in BoolExprs}

\* The case bodies of the switches below: expression statements, a return, a
\* nested if statement and a nested switch.
CaseBodies ==
    { <<>>, <<ExprStmt(CallH(N))>>, <<ExprStmt(CallH(N)), ExprStmt(CallH(One))>>,
      <<ReturnStmt(<<>>)>>,
      <<IfStmt(Nil, G, BlockStmt(<<>>), Nil)>>,
      <<SwitchStmt(Nil, Nil, <<CaseClause(<<G>>, <<>>)>>)>> }

\* switch { case c: body1; default: body2 }, alone or behind a statement.
TwoWaySwitches ==
    {pre \o <<SwitchStmt(Nil, Nil, <<CaseClause(<<c>>, b1), CaseClause(<<>>, b2)>>)>> :
        pre \in {<<>>, <<ExprStmt(CallH(N))>>}, c \in {G, A, UnaryExpr("!", G)},
        b1 \in CaseBodies, b2 \in CaseBodies}

\* func Add(a, b int) int { return a + b }
AddUnit ==
    <<<<FuncDecl("Add", <<>>, <<Field(<<"a", "b">>, IntType)>>, <<Field(<<>>, IntType)>>,
                 BlockStmt(<<ReturnStmt(<<BinaryExpr(Ident("a"), "+", Ident("b"))>>)>>))>>>>

\* The bodies with one call whose callee is the package-level variable n.
VarCalleeBodies == {<<ExprStmt(CallExpr(N, <<x>>))>> : x \in {N, One}}

\* The bodies with a statement behind an if statement or a switch whose
\* condition or tag is the parameter a.
CondErrBodies ==
    {<<st, post>> : st \in {IfStmt(Nil, A, BlockStmt(<<>>), Nil),
                            SwitchStmt(Nil, A, <<CaseClause(<<>>, <<>>)>>)},
                    post \in Simple}

\* The branch bodies of the if statements below: empty, a call, a return, and
\* nested if statements.
BranchBodies ==
    { <<>>, <<ExprStmt(CallH(N))>>, <<ReturnStmt(<<>>)>>,
      <<IfStmt(Nil, G, BlockStmt(<<>>), Nil)>>,
      <<IfStmt(Nil, G, BlockStmt(<<ReturnStmt(<<>>)>>), BlockStmt(<<ExprStmt(CallH(N))>>))>> }

\* if g { body } with no else-branch, an else-branch or an else-if, alone or
\* behind a statement.
NestedIfs ==
    {pre \o <<IfStmt(Nil, G, BlockStmt(b), e)>> :
        pre \in SeqsUpTo(Simple, MaxPre), b \in BranchBodies,
        e \in {Nil, IfStmt(Nil, G, BlockStmt(<<>>), Nil)} \cup {BlockStmt(b2) : b2 \in BranchBodies}}

FlowUnits ==
    {FlowUnit(<<>>, body) :
        body \in ShapeBodies \cup ExprBodies \cup TwoWaySwitches \cup VarCalleeBodies
                    \cup CondErrBodies \cup NestedIfs}
        \cup {AddUnit}

InitFlow == \E u \in FlowUnits : NewGenerator(u)

\* The lowering of the packages FlowUnits.
SpecFlow == InitFlow /\ [][Next]_vars

\* The pool of declarations:
\*   var ( n int; g bool )
\*   var n, k bool
\*   func F() { return }
\*   func P(x int) int { return n }
\*   func Q(x, y int) (a, b int, c bool) { return n, n, g }
\*   func F(x int) (int, bool) { return n, g }
\*   type T struct { x int; next *T }
\*   import "fmt"
\*   func (t T) M() {}
DeclPool ==
    { VarDecls,
      GenDecl("var", <<ValueSpec(<<"n", "k">>, BoolType)>>),
      FuncDecl("F", <<>>, <<>>, <<>>, BlockStmt(<<ReturnStmt(<<>>)>>)),
      FuncDecl("P", <<>>, <<Field(<<"x">>, IntType)>>, <<Field(<<>>, IntType)>>,
               BlockStmt(<<ReturnStmt(<<N>>)>>)),
      FuncDecl("Q", <<>>, <<Field(<<"x", "y">>, IntType)>>,
               <<Field(<<"a", "b">>, IntType), Field(<<"c">>, BoolType)>>,
               BlockStmt(<<ReturnStmt(<<N, N, G>>)>>)),
      FuncDecl("F", <<>>, <<Field(<<"x">>, IntType)>>,
               <<Field(<<>>, IntType), Field(<<>>, BoolType)>>,
               BlockStmt(<<ReturnStmt(<<N, G>>)>>)),
      GenDecl("type", <<TypeSpec("T", StructType(<<Field(<<"x">>, Ident("int")),
                                                   Field(<<"next">>, StarExpr(Ident("T")))>>))>>),
      GenDecl("import", <<ImportSpec("fmt")>>),
      FuncDecl("M", <<Field(<<"t">>, TypeIdent("T"))>>, <<>>, <<>>, BlockStmt(<<>>)),
      FuncDecl("init", <<>>, <<>>, <<>>, BlockStmt(<<ReturnStmt(<<>>)>>)) }

\* The packages of one file with at most MaxDecls declarations of the pool, and
\* the packages of two files with one declaration each.
IndexUnits ==
    {<<decls>> : decls \in SeqsUpTo(DeclPool, MaxDecls)}
        \cup {<<<<d1>>, <<d2>>>> : d1 \in DeclPool, d2 \in DeclPool}

Init == \E u \in IndexUnits : NewGenerator(u)

\* The lowering of the packages IndexUnits.
Spec == Init /\ [][Next]_vars

MaxTypeDecls == 2   \* declarations of a package of the type pool

\* The pool of type-related declarations: var v K for every basic kind K, and
\*   type T struct { x int; next *T }
\*   type ( A struct { b *B }; B struct { a *A } )
\*   type U T
TypePool ==
    {GenDecl("var", <<ValueSpec(<<"v">>, TypeIdent(kind))>>) : kind \in BasicKinds}
        \cup { GenDecl("type", <<TypeSpec("T", StructType(<<Field(<<"x">>, Ident("int")),
                                                            Field(<<"next">>, StarExpr(Ident("T")))>>))>>),
               GenDecl("type", <<TypeSpec("A", StructType(<<Field(<<"b">>, StarExpr(Ident("B")))>>)),
                                 TypeSpec("B", StructType(<<Field(<<"a">>, StarExpr(Ident("A")))>>))>>),
               GenDecl("type", <<TypeSpec("U", Ident("T"))>>),
               GenDecl("type", <<TypeSpec("P", StarExpr(Ident("bool")))>>),
               GenDecl("type", <<TypeSpec("S", StructType(<<Field(<<"x">>, Ident("bool")),
                                                            Field(<<"y">>, Ident("int"))>>))>>) }

TypeUnits == {<<decls>> : decls \in SeqsUpTo(TypePool, MaxTypeDecls)}

InitTypes == \E u \in TypeUnits : NewGenerator(u)

\* The lowering of the packages TypeUnits.
SpecTypes == InitTypes /\ [][Next]_vars

\* The integer kinds of the operands of the bit operations.
IntKinds == {"int8", "uint8", "int16", "uint16", "int32", "uint32", "int64", "uint64", "int", "uint"}

\* var x, y kind; func f() kind { return e }
BitUnit(kind, e) ==
    <<<<GenDecl("var", <<ValueSpec(<<"x", "y">>, TypeIdent(kind))>>),
        FuncDecl("f", <<>>, <<>>, <<Field(<<>>, TypeIdent(kind))>>,
                 BlockStmt(<<ReturnStmt(<<e>>)>>))>>>>

BitUnits ==
    {BitUnit(kind, BinaryExpr(Ident(a), "&^", Ident(b))) :
        kind \in IntKinds, a \in {"x", "y"}, b \in {"x", "y"}}

\* var x kx; var y ky; func f() kx { return x op y }, for the arithmetic
\* operators and operands of integer, float and string type.
ArithUnit(kx, ky, op) ==
    <<<<GenDecl("var", <<ValueSpec(<<"x">>, TypeIdent(kx))>>),
        GenDecl("var", <<ValueSpec(<<"y">>, TypeIdent(ky))>>),
        FuncDecl("f", <<>>, <<>>, <<Field(<<>>, TypeIdent(kx))>>,
                 BlockStmt(<<ReturnStmt(<<BinaryExpr(Ident("x"), op, Ident("y"))>>)>>))>>>>

ArithKinds == {"int", "float64", "string"}

ArithOps == {"+", "-", "*", "/", "%"}

ArithUnits == {ArithUnit(kx, ky, op) : kx \in ArithKinds, ky \in ArithKinds, op \in ArithOps}

\* var x kind; var y kind; func f() bool { switch x { case y: }; return x == y }
EqualUnit(kind) ==
    <<<<GenDecl("var", <<ValueSpec(<<"x">>, TypeIdent(kind))>>),
        GenDecl("var", <<ValueSpec(<<"y">>, TypeIdent(kind))>>),
        FuncDecl("f", <<>>, <<>>, <<Field(<<>>, TypeIdent("bool"))>>,
                 BlockStmt(<<SwitchStmt(Nil, Ident("x"), <<CaseClause(<<Ident("y")>>, <<>>)>>),
                             ReturnStmt(<<BinaryExpr(Ident("x"), "==", Ident("y"))>>)>>))>>>>

EqualKinds == {"int", "int32", "uint8", "float32", "float64"}

EqualUnits == {EqualUnit(kind) : kind \in EqualKinds}

InitBits == \E u \in BitUnits \cup ArithUnits \cup EqualUnits : NewGenerator(u)

\* The lowering of the packages BitUnits, ArithUnits and EqualUnits.
SpecBits == InitBits /\ [][Next]_vars


(***************************************************************************)
(* Properties.                                                             *)
(***************************************************************************)
\* The blocks attached to a function of the module.
AttachedBlocks ==
    UNION {{m.Funcs[i].Blocks[j] : j \in 1..Len(m.Funcs[i].Blocks)} : i \in 1..Len(m.Funcs)}

\* C1: every block that if or switch lowering created (an attached block that
\* is no entry block) has a terminator that was set exactly once, the block
\* that is current when the body ends excepted; and no block that ends in a
\* branch had its terminator set more than once.
C1_OneTerminator ==
    \A b \in AttachedBlocks :
        /\ (blk[b].Name # "entry" /\ b # cur) => (blk[b].Term # Nil /\ blk[b].nterm = 1)
        /\ blk[b].Term.k \in {"br", "condbr"} => blk[b].nterm = 1

\* C2: once a block has a terminator, no instruction is appended to it and its
\* terminator is not set again.
C2_NoUseAfterTerminator ==
    \A b \in 1..Len(blk) : blk[b].late = 0 /\ blk[b].nterm <= 1

\* The function declarations among the first n declarations of the package.
FuncDeclsUpTo(n) == {i \in 1..n : Decls[i].k = "FuncDecl"}

\* The function declarations among the first n declarations whose body
\* lowerFuncDecl lowers: the declared name is indexed and there is a body.
BodiesUpTo(n) == {i \in FuncDeclsUpTo(n) : Decls[i].Recv = <<>> /\ Decls[i].Body # Nil}

EntryBlocks == {b \in 1..Len(blk) : blk[b].Name = "entry"}

\* C3: the phases run in the order resolveTypeDefs, indexPackage, lowerPackage
\* (compilePackage): nothing is indexed before the type definitions are
\* resolved, no body is lowered before every declaration is indexed, and the
\* module is completed (Generator.Lower) or appended to the list of modules
\* (compiler.post) only after every body was lowered.
C3_PhaseOrder ==
    /\ pc = "resolveTypeDefs" =>
          /\ funcs = EmptyMap /\ globals = EmptyMap
          /\ m.Funcs = <<>> /\ m.Globals = <<>> /\ blk = <<>>
    /\ pc = "indexPackage" =>
          /\ TypeNames \subseteq DOMAIN typeDefs
          /\ Len(m.Funcs) = Cardinality(FuncDeclsUpTo(idx))
          /\ blk = <<>>
    /\ pc = "lowerPackage" =>
          /\ TypeNames \subseteq DOMAIN typeDefs
          /\ Len(m.Funcs) = Cardinality(FuncDeclsUpTo(Len(Decls)))
          /\ Cardinality(EntryBlocks) = Cardinality(BodiesUpTo(idx))
    /\ pc \in {"typeDefs", "append", "done"} =>
          /\ Len(m.Funcs) = Cardinality(FuncDeclsUpTo(Len(Decls)))
          /\ Cardinality(EntryBlocks) = Cardinality(BodiesUpTo(Len(Decls)))
    /\ pc # "done" => modules = <<>> /\ m.TypeDefs = <<>>
    /\ modules # <<>> => modules = <<m>>

\* compiler.post appended the module of a package with a variable declaration
\* and a function body.
C3_Witness ==
    /\ pc = "done" /\ modules = <<m>>
    /\ m.Globals # <<>> /\ EntryBlocks # {}

\* Generator.Lower returned the module of a package with a type declaration
\* and a function body.
C3_WitnessLower ==
    /\ pc = "done" /\ modules = <<>>
    /\ m.TypeDefs # <<>> /\ TypeNames # {} /\ EntryBlocks # {}

\* The number of declarations indexPackage has visited.
IndexedDecls ==
    CASE pc = "resolveTypeDefs" -> 0
      [] pc = "indexPackage" -> idx
      [] OTHER -> Len(Decls)

\* The declarations of the function name among the first n declarations.
DeclsNamed(name, n) == {i \in FuncDeclsUpTo(n) : Decls[i].Name = name}

FuncNames == {Decls[i].Name : i \in FuncDeclsUpTo(Len(Decls))}

Min(S) == CHOOSE x \in S : \A y \in S : x <= y

\* The position in m.Funcs of the function of declaration i.
Ordinal(i) == Cardinality(FuncDeclsUpTo(i))

AlreadyPresent(name) ==
    {e \in 1..Len(errs) : errs[e].msg = "function already present" /\ errs[e].Name = name}

\* C4: every declaration of a function name after the first one is reported
\* once, as already present with the first declaration as the previous one;
\* gen.funcs keeps the function of the first declaration; and indexing
\* continues: every visited function declaration is added to the module.
C4_DuplicateFunc ==
    pc # "panic" =>
        /\ Len(m.Funcs) = Cardinality(FuncDeclsUpTo(IndexedDecls))
        /\ \A name \in FuncNames :
              LET ds == DeclsNamed(name, IndexedDecls)
                  es == AlreadyPresent(name)
              IN  IF ds = {} THEN es = {} /\ ~Has(funcs, name)
                  ELSE /\ Has(funcs, name) /\ funcs[name] = Ordinal(Min(ds))
                       /\ Cardinality(es) = Cardinality(ds) - 1
                       /\ {errs[e].new : e \in es} = {Ordinal(i) : i \in ds \ {Min(ds)}}
                       /\ \A e \in es : errs[e].prev = Ordinal(Min(ds))

\* A second declaration of a name was reported and a later function
\* declaration was indexed after it.
C4_Witness ==
    /\ pc # "panic"
    /\ \E e \in 1..Len(errs) :
          /\ errs[e].msg = "function already present"
          /\ Cardinality(AlreadyPresent(errs[e].Name)) = 1
          /\ funcs[errs[e].Name] = errs[e].prev
          /\ Len(m.Funcs) > errs[e].new
          /\ funcs[m.Funcs[Len(m.Funcs)].Name] = Len(m.Funcs)

\* The variable names of a list of specifications, in order.
RECURSIVE SpecNames(_)
SpecNames(specs) ==
    IF specs = <<>> THEN <<>>
    ELSE (IF specs[1].k = "ValueSpec" THEN specs[1].Names ELSE <<>>) \o SpecNames(Tail(specs))

\* The variable names the first n declarations declare, in order.
RECURSIVE VarNames(_)
VarNames(n) ==
    IF n = 0 THEN <<>>
    ELSE VarNames(n - 1) \o (IF Decls[n].k = "GenDecl" THEN SpecNames(Decls[n].Specs) ELSE <<>>)

\* C5: when indexValueSpec meets a variable name that is already indexed, an
\* error is reported for the name and gen.globals keeps the global of the
\* first declaration.
C5_DuplicateGlobal ==
    pc # "panic" =>
        LET ns == VarNames(IndexedDecls)
        IN  \A i, j \in 1..Len(ns) :
                (i < j /\ ns[i] = ns[j]) =>
                    /\ \E e \in 1..Len(errs) : "Name" \in DOMAIN errs[e] /\ errs[e].Name = ns[i]
                    /\ globals[ns[i]] = Min({k \in 1..Len(ns) : ns[k] = ns[i]})

\* indexDecl over the declarations ds in the order perm.
RECURSIVE IndexFold(_, _, _, _)
IndexFold(ds, perm, i, g) ==
    IF i > Len(perm) \/ g.panicked THEN g
    ELSE IndexFold(ds, perm, i + 1, indexDecl(ds[perm[i]], g))

\* The generator indexPackage starts from: resolved types, empty tables.
Unindexed ==
    [Gen EXCEPT !.funcs = EmptyMap, !.globals = EmptyMap, !.errs = <<>>,
                !.m = [Funcs |-> <<>>, Globals |-> <<>>, TypeDefs |-> <<>>]]

\* The signatures of the function table and the types of the table of global
\* variables of the generator g.
FuncTable(g) ==
    [name \in DOMAIN g.funcs |->
        [RetType |-> g.m.Funcs[g.funcs[name]].RetType,
         Params |-> [i \in 1..Len(g.m.Funcs[g.funcs[name]].Params) |->
                        g.m.Funcs[g.funcs[name]].Params[i].Typ]]]

GlobalTable(g) ==
    [name \in DOMAIN g.globals |-> g.m.Globals[g.globals[name]].ContentType]

\* The function names and the variable names of the package are pairwise
\* distinct.
DistinctNames ==
    /\ \A i, j \in FuncDeclsUpTo(Len(Decls)) : Decls[i].Name = Decls[j].Name => i = j
    /\ LET ns == VarNames(Len(Decls))
       IN  \A i, j \in 1..Len(ns) : ns[i] = ns[j] => i = j

IndexComplete == pc \in {"lowerPackage", "typeDefs", "append", "done"}

\* C6: when the names of a package are pairwise distinct, indexing its
\* declarations in any order ends with the function table and the table of
\* global variables that indexPackage built: the same names with the same
\* return type, parameter types and variable type.
C6_OrderIndependent ==
    (IndexComplete /\ DistinctNames) =>
        \A perm \in Perms(1..Len(Decls)) :
            LET g == IndexFold(Decls, perm, 1, Unindexed)
            IN  /\ ~g.panicked
                /\ FuncTable(g) = FuncTable(Gen)
                /\ GlobalTable(g) = GlobalTable(Gen)

\* indexPackage indexed three declarations with distinct names: variables and
\* two functions of different signatures.
C6_Witness ==
    /\ IndexComplete /\ DistinctNames
    /\ Len(Decls) = 3
    /\ DOMAIN globals # {}
    /\ \E f1, f2 \in DOMAIN funcs : FuncTable(Gen)[f1] # FuncTable(Gen)[f2]

\* The result types a result list declares, in order: a field without a name
\* is one result, a field with names one result per name.
RECURSIVE ResultTypes(_)
ResultTypes(list) ==
    IF list = <<>> THEN <<>>
    ELSE [i \in 1..(IF list[1].Names = <<>> THEN 1 ELSE Len(list[1].Names)) |->
             irTypeOf(list[1].Type, typeDefs).t] \o ResultTypes(Tail(list))

\* The number of declarations lowerPackage has visited.
LoweredDecls ==
    CASE pc = "lowerPackage" -> idx
      [] pc \in {"typeDefs", "append", "done"} -> Len(Decls)
      [] OTHER -> 0

\* The k-th entry block: the entry block of the k-th lowered body.
NthEntry(k) == CHOOSE b \in EntryBlocks : Cardinality({c \in EntryBlocks : c <= b}) = k

\* The body of declaration i is one return statement with at least two
\* results, each the name of a global variable of the declared result type.
ReturnsGlobals(i) ==
    /\ Len(Decls[i].Body.List) = 1
    /\ Decls[i].Body.List[1].k = "ReturnStmt"
    /\ LET rs == Decls[i].Body.List[1].Results
           ts == ResultTypes(Decls[i].Results)
       IN  /\ Len(rs) >= 2 /\ Len(rs) = Len(ts)
           /\ \A j \in 1..Len(rs) :
                 /\ rs[j].k = "Ident" /\ Has(globals, rs[j].Name)
                 /\ m.Globals[globals[rs[j].Name]].ContentType = ts[j]

\* C7: the return type indexed for a function declaration is void without
\* results, the result type with one result, and the anonymous struct of the
\* result types in declaration order with two or more (one per name of a
\* field); and a return statement with two or more results returns one
\* aggregate value of exactly that struct type whose fields are the values of
\* the results in order.
C7_ReturnType ==
    pc # "panic" =>
        /\ \A i \in FuncDeclsUpTo(IndexedDecls) :
              LET ts == ResultTypes(Decls[i].Results)
              IN  m.Funcs[Ordinal(i)].RetType =
                      CASE Len(ts) = 0 -> Void
                        [] Len(ts) = 1 -> ts[1]
                        [] OTHER -> StructT(ts)
        /\ \A i \in BodiesUpTo(LoweredDecls) :
              ReturnsGlobals(i) =>
                  LET rs == Decls[i].Body.List[1].Results
                      term == blk[NthEntry(Cardinality(BodiesUpTo(i)))].Term
                  IN  /\ term.k = "ret" /\ term.X.k = "aggregate"
                      /\ term.X.Typ = m.Funcs[Ordinal(i)].RetType
                      /\ term.X.Typ = StructT(ResultTypes(Decls[i].Results))
                      /\ Len(term.X.Fields) = Len(rs)
                      /\ \A j \in 1..Len(rs) :
                            /\ term.X.Fields[j].Op = "load"
                            /\ term.X.Fields[j].Args[1].Name = rs[j].Name
                            /\ term.X.Fields[j].Typ = term.X.Typ.Fields[j]

\* A function whose results are declared as 'a, b int, c bool' was indexed
\* and its return statement with three results was lowered.
C7_Witness ==
    /\ pc = "done"
    /\ \E i \in BodiesUpTo(Len(Decls)) :
          /\ ReturnsGlobals(i)
          /\ Len(Decls[i].Results) = 2 /\ Len(Decls[i].Results[1].Names) = 2
          /\ m.Funcs[Ordinal(i)].RetType = StructT(<<I64, I64, I1>>)
          /\ blk[NthEntry(Cardinality(BodiesUpTo(i)))].Term.X.Typ = StructT(<<I64, I64, I1>>)

\* C8: lowering the package of func Add(a, b int) int { return a + b } reports
\* no error and gives one function Add with two i64 parameters and return
\* type i64, whose only block is the entry block with one add instruction and
\* a return of its result.
C8_AddExample ==
    (unit = AddUnit /\ LoweredDecls = Len(Decls)) =>
        /\ errs = <<>>
        /\ Len(m.Funcs) = 1
        /\ m.Funcs[1].Name = "Add"
        /\ m.Funcs[1].RetType = I64
        /\ [i \in 1..Len(m.Funcs[1].Params) |-> m.Funcs[1].Params[i].Typ] = <<I64, I64>>
        /\ Len(m.Funcs[1].Blocks) = 1
        /\ blk[m.Funcs[1].Blocks[1]].Name = "entry"
        /\ Len(blk[m.Funcs[1].Blocks[1]].Insts) = 1
        /\ blk[m.Funcs[1].Blocks[1]].Insts[1].Op = "add"
        /\ blk[m.Funcs[1].Blocks[1]].Term = TermRet(blk[m.Funcs[1].Blocks[1]].Insts[1])

\* A return statement occurs in the statement, or in the list of statements.
RECURSIVE HasReturn(_), HasReturnList(_)
HasReturn(st) ==
    CASE st.k = "ReturnStmt" -> TRUE
      [] st.k = "BlockStmt" -> HasReturnList(st.List)
      [] st.k = "IfStmt" -> HasReturnList(st.Body.List) \/ (st.Else # Nil /\ HasReturn(st.Else))
      [] st.k = "SwitchStmt" ->
            \E i \in 1..Len(st.Body.List) : HasReturnList(st.Body.List[i].Body)
      [] OTHER -> FALSE

HasReturnList(list) == \E i \in 1..Len(list) : HasReturn(list[i])

OnlyExprStmts(list) == \A i \in 1..Len(list) : list[i].k = "ExprStmt"

\* The body of the function f of the package, and its last statement.
BodyOfF == Decls[Len(Decls)].Body.List

LastStmt == BodyOfF[Len(BodyOfF)]

\* The body of f is switch { case c: body1; default: body2 } behind expression
\* statements, so that the switch is lowered from the open entry block, and f
\* is lowered.
TwoWayLowered ==
    /\ Decls[Len(Decls)].Name = "f" /\ LoweredDecls = Len(Decls) /\ pc # "panic"
    /\ BodyOfF # <<>> /\ OnlyExprStmts(SubSeq(BodyOfF, 1, Len(BodyOfF) - 1))
    /\ LastStmt.k = "SwitchStmt" /\ LastStmt.Tag = Nil /\ LastStmt.Init = Nil
    /\ Len(LastStmt.Body.List) = 2
    /\ Len(LastStmt.Body.List[1].List) = 1 /\ LastStmt.Body.List[2].List = <<>>

\* The blocks of f are the entry block B and four more: B branches on a
\* condition to the first case block and to the probe block, the probe block
\* branches to the case block of the default clause, both case blocks branch
\* to the follow block, which is the current block.
FourBlockShape ==
    LET bs == m.Funcs[funcs["f"]].Blocks
    IN  /\ Len(bs) = 5 /\ Cardinality({bs[i] : i \in 1..5}) = 5
        /\ blk[bs[1]].Name = "entry" /\ blk[bs[1]].Term.k = "condbr"
        /\ LET c1 == blk[bs[1]].Term.TargetTrue
               probe == blk[bs[1]].Term.TargetFalse
           IN  /\ {c1, probe} \subseteq {bs[i] : i \in 2..5} /\ c1 # probe
               /\ blk[probe].Term.k = "br" /\ blk[probe].Insts = <<>>
               /\ LET d == blk[probe].Term.Target
                  IN  /\ d \in {bs[i] : i \in 2..5} \ {c1, probe}
                      /\ blk[c1].Term = TermBr(cur) /\ blk[d].Term = TermBr(cur)
                      /\ {c1, probe, d, cur} = {bs[i] : i \in 2..5}
                      /\ blk[cur].Term = Nil /\ blk[cur].Insts = <<>>
        /\ \A i \in 1..5 : blk[bs[i]].nterm <= 1 /\ blk[bs[i]].late = 0

ValueOperands(inst) ==
    IF inst.Op = "load" THEN {} ELSE {inst.Args[i] : i \in 1..Len(inst.Args)}

\* The values a terminator consumes.
TermOperands(term) ==
    CASE term.k = "ret" ->
            IF term.X.k = "aggregate"
            THEN {term.X} \cup {term.X.Fields[i] : i \in 1..Len(term.X.Fields)}
            ELSE {term.X}
      [] term.k = "condbr" -> {term.Cond}
      [] OTHER -> {}

IsLoad(v) == v.k = "inst" /\ v.Op = "load"

\* The load v is one of the first n instructions of block b, or an instruction
\* of a block allocated before b.
LoadedBefore(v, b, n) ==
    \/ \E q \in 1..n : blk[b].Insts[q] = v
    \/ \E b2 \in 1..(b - 1) : \E q \in 1..Len(blk[b2].Insts) : blk[b2].Insts[q] = v

\* C10: no instruction and no terminator consumes a global variable itself in
\* value position (operand of an operation, call argument, return result,
\* branch condition, compared tag or case value): it consumes a load of the
\* variable that was emitted before the consumer.
C10_GlobalsLoaded ==
    \A b \in 1..Len(blk) :
        /\ \A p \in 1..Len(blk[b].Insts) :
              \A v \in ValueOperands(blk[b].Insts[p]) :
                  /\ v.k # "global"
                  /\ IsLoad(v) => (v.Args[1].k = "global" /\ LoadedBefore(v, b, p - 1))
        /\ \A v \in TermOperands(blk[b].Term) :
              /\ v.k # "global"
              /\ IsLoad(v) => (v.Args[1].k = "global" /\ LoadedBefore(v, b, Len(blk[b].Insts)))

\* A block holds an add of a loaded variable behind the load, and its
\* terminator consumes a value.
C10_Witness ==
    \E b \in 1..Len(blk) :
        /\ \E p \in 1..Len(blk[b].Insts) :
              /\ blk[b].Insts[p].Op = "add"
              /\ IsLoad(blk[b].Insts[p].Args[1])
              /\ blk[b].Insts[p].Args[1].Args[1].k = "global"
              /\ \E q \in 1..(p - 1) : blk[b].Insts[q] = blk[b].Insts[p].Args[1]
        /\ TermOperands(blk[b].Term) # {}
        /\ \A v \in TermOperands(blk[b].Term) : v.k \in {"inst", "aggregate"}

\* The load instructions of block b.
LoadsOf(b) == {p \in 1..Len(blk[b].Insts) : blk[b].Insts[p].Op = "load"}

\* The name is the name of a package-level variable and of no function.
IsGlobalName(name) == Has(globals, name) /\ ~Has(funcs, name)

\* The body of f is one call statement c(args) whose callee is an identifier
\* and whose arguments are identifiers and literals, and lowerFuncBody ran on
\* it.
OneCallLowered ==
    /\ Decls[Len(Decls)].Name = "f" /\ blk # <<>>
    /\ Len(BodyOfF) = 1 /\ BodyOfF[1].k = "ExprStmt"
    /\ BodyOfF[1].X.k = "CallExpr" /\ BodyOfF[1].X.Fun.k = "Ident"
    /\ \A i \in 1..Len(BodyOfF[1].X.Args) : BodyOfF[1].X.Args[i].k \in {"Ident", "BasicLit"}

\* C11: lowerCallExpr emits no load for the callee, be it a function or a
\* package-level variable: the loads of the block are the loads of the
\* arguments that name package-level variables, and a call instruction has the
\* function or the variable itself as callee.
C11_CalleeNotLoaded ==
    OneCallLowered =>
        LET call == BodyOfF[1].X
            loadedArgs == {i \in 1..Len(call.Args) :
                              call.Args[i].k = "Ident" /\ IsGlobalName(call.Args[i].Name)}
        IN  /\ Cardinality(LoadsOf(1)) <= Cardinality(loadedArgs)
            /\ \A p \in 1..Len(blk[1].Insts) :
                  blk[1].Insts[p].Op = "call" => blk[1].Insts[p].Callee.k \in {"func", "global"}

\* The kinds of the variables a list of specifications declares, in order.
RECURSIVE SpecKinds(_)
SpecKinds(specs) ==
    IF specs = <<>> THEN <<>>
    ELSE (IF specs[1].k = "ValueSpec"
          THEN [i \in 1..Len(specs[1].Names) |-> specs[1].Type.GoType] ELSE <<>>)
             \o SpecKinds(Tail(specs))

\* The kinds of the variables the first n declarations declare, in order: the
\* kind of the i-th global variable of the module.
RECURSIVE VarKinds(_)
VarKinds(n) ==
    IF n = 0 THEN <<>>
    ELSE VarKinds(n - 1) \o (IF Decls[n].k = "GenDecl" THEN SpecKinds(Decls[n].Specs) ELSE <<>>)

\* The reference table of the predeclared kinds.
RefType(kind) ==
    CASE kind = "bool" -> IntT(1)
      [] kind \in {"int", "uint", "uintptr", "unsafe.Pointer"} -> IntT(64)
      [] kind \in {"int8", "uint8"} -> IntT(8)
      [] kind \in {"int16", "uint16"} -> IntT(16)
      [] kind \in {"int32", "uint32"} -> IntT(32)
      [] kind \in {"int64", "uint64"} -> IntT(64)
      [] kind = "float32" -> FloatT("float")
      [] kind = "float64" -> FloatT("double")
      [] kind = "complex64" -> StructT(<<FloatT("float"), FloatT("float")>>)
      [] kind = "complex128" -> StructT(<<FloatT("double"), FloatT("double")>>)
      [] kind = "string" -> StructT(<<PointerT(IntT(8)), IntT(64)>>)

\* The unsigned kind of the width of a signed integer kind.
UnsignedOf(kind) ==
    CASE kind = "int" -> "uint" [] kind = "int8" -> "uint8" [] kind = "int16" -> "uint16"
      [] kind = "int32" -> "uint32" [] kind = "int64" -> "uint64"

SignedKinds == {"int", "int8", "int16", "int32", "int64"}

\* C12: the type of every indexed variable of a predeclared kind is the type
\* the reference table gives for the kind, and the types of a signed and of
\* the unsigned kind of the same width are structurally equal.
C12_BasicTypeTable ==
    pc # "panic" =>
        LET ks == VarKinds(IndexedDecls)
        IN  /\ Len(m.Globals) = Len(ks)
            /\ \A i \in 1..Len(ks) :
                  ks[i] \in PredeclaredKinds => m.Globals[i].ContentType = RefType(ks[i])
            /\ \A i, j \in 1..Len(ks) :
                  (ks[i] \in SignedKinds /\ ks[j] = UnsignedOf(ks[i])) =>
                      TypesEqual(m.Globals[i].ContentType, m.Globals[j].ContentType)

\* A variable of kind int and a variable of kind uint were indexed.
C12_Witness ==
    /\ pc = "done"
    /\ VarKinds(Len(Decls)) = <<"int", "uint">>
    /\ Len(m.Globals) = 2
    /\ m.Globals[1].ContentType = I64 /\ m.Globals[2].ContentType = I64

\* C13: lowering a basic kind twice gives structurally equal types and leaves
\* the type catalog after the second call equal to the catalog after the
\* first: for every kind at every catalog the program reaches, and for every
\* two indexed variables of the same kind.
C13_BasicTypeIdempotent ==
    pc # "panic" =>
        /\ \A kind \in BasicKinds :
              /\ ~irType(kind, typeDefs).panicked
              /\ irType(kind, irType(kind, typeDefs).typeDefs).t = irType(kind, typeDefs).t
              /\ irType(kind, irType(kind, typeDefs).typeDefs).typeDefs
                     = irType(kind, typeDefs).typeDefs
        /\ LET ks == VarKinds(IndexedDecls)
           IN  \A i, j \in 1..Len(ks) :
                   ks[i] = ks[j] => m.Globals[i].ContentType = m.Globals[j].ContentType

\* Two variables of kind untyped complex were indexed, one after the other.
C13_Witness ==
    /\ pc = "indexPackage" /\ idx = 2
    /\ VarKinds(2) = <<"untyped complex", "untyped complex">>
    /\ Len(m.Globals) = 2
    /\ Has(typeDefs, "untyped_complex")
    /\ typeDefs["untyped_complex"] = m.Globals[2].ContentType

\* The catalog name the source gives to the named type of an untyped kind.
UntypedName(kind) ==
    CASE kind = "untyped bool" -> "untyped_bool"
      [] kind = "untyped int" -> "untyped_int"
      [] kind = "untyped rune" -> "untyped_rune"
      [] kind = "untyped float" -> "untyped_float"
      [] kind = "untyped complex" -> "untyped_complex"
      [] kind = "untyped string" -> "untyped_string"
      [] kind = "untyped nil" -> "untyped_nil"

\* C14: every untyped constant kind lowers to a named type 'untyped_<kind>',
\* and after the call the type catalog has an entry under that name: checked
\* on every indexed variable of an untyped kind.
C14_UntypedNamed ==
    pc # "panic" =>
        LET ks == VarKinds(IndexedDecls)
        IN  \A i \in 1..Len(ks) :
                ks[i] \in UntypedKinds =>
                    /\ m.Globals[i].ContentType.TypeName = UntypedName(ks[i])
                    /\ Has(typeDefs, UntypedName(ks[i]))

\* The types with a non-empty name that are t or nested in t; a reference to
\* a catalog entry is no type of its own.
RECURSIVE NamedTypesIn(_)
NamedTypesIn(t) ==
    CASE t.k \in {"nil", "named", "void"} -> {}
      [] t.k = "pointer" ->
            (IF t.TypeName # "" THEN {t} ELSE {}) \cup NamedTypesIn(t.ElemType)
      [] t.k = "struct" ->
            (IF t.TypeName # "" THEN {t} ELSE {})
                \cup UNION {NamedTypesIn(t.Fields[i]) : i \in 1..Len(t.Fields)}
      [] OTHER -> IF t.TypeName # "" THEN {t} ELSE {}

\* The types the state holds: the catalog entries and the content types of
\* the globals of the module.
StateTypes ==
    {typeDefs[n] : n \in DOMAIN typeDefs}
        \cup {m.Globals[i].ContentType : i \in 1..Len(m.Globals)}

\* C15: every type with a non-empty name, also one nested in another type, is
\* the catalog entry of its name.
C15_NamedTypesInCatalog ==
    pc # "panic" =>
        \A t \in StateTypes :
            \A n \in NamedTypesIn(t) :
                /\ Has(typeDefs, n.TypeName)
                /\ typeDefs[n.TypeName] = n

\* The type definitions of the unit: type name -> Go type expression.
DeclaredTypes == CollectTypeDecls(Decls, EmptyMap)

\* The type names a Go type expression refers to.
RECURSIVE RefNames(_)
RefNames(old) ==
    CASE old.k = "Ident" -> {old.Name}
      [] old.k = "StarExpr" -> RefNames(old.X)
      [] old.k = "StructType" ->
            UNION {RefNames(old.Fields[i].Type) : i \in 1..Len(old.Fields)}
      [] OTHER -> {}

\* The fields of the struct definition of name that are pointers to a named
\* type.
PointerFields(name) ==
    {i \in 1..Len(DeclaredTypes[name].Fields) :
        /\ DeclaredTypes[name].Fields[i].Type.k = "StarExpr"
        /\ DeclaredTypes[name].Fields[i].Type.X.k = "Ident"}

StructNames == {n \in DOMAIN DeclaredTypes : DeclaredTypes[n].k = "StructType"}

\* The unit declares a struct with a pointer to itself or to another declared
\* struct, and every type name it refers to is declared or built in.
RecursiveUnit ==
    /\ \E n \in StructNames : \E i \in PointerFields(n) :
           DeclaredTypes[n].Fields[i].Type.X.Name \in StructNames
    /\ \A n \in DOMAIN DeclaredTypes :
           RefNames(DeclaredTypes[n]) \subseteq DOMAIN DeclaredTypes \cup {"int", "string"}

\* The catalog after resolveTypeDefs: one entry per declared name, carrying
\* that name, and every pointer field refers to the catalog entry of its
\* element's name.
ResolvedCatalog ==
    /\ \A n \in DOMAIN DeclaredTypes :
          /\ Has(typeDefs, n)
          /\ Cardinality({e \in DOMAIN typeDefs : typeDefs[e].TypeName = n}) = 1
    /\ DOMAIN typeDefs \subseteq
          DOMAIN DeclaredTypes \cup {"int", "string"} \cup {UntypedName(kind) : kind \in UntypedKinds}
    /\ \A n \in StructNames :
          /\ typeDefs[n].k = "struct"
          /\ Len(typeDefs[n].Fields) = Len(DeclaredTypes[n].Fields)
          /\ \A i \in PointerFields(n) :
                /\ typeDefs[n].Fields[i] = PointerT(TypeRef(DeclaredTypes[n].Fields[i].Type.X.Name))
                /\ Has(typeDefs, DeclaredTypes[n].Fields[i].Type.X.Name)

\* resolveTypeDefs on the unit, for every order in which its two loops can
\* range over the map of type names, returns without a panic.
ResolveReturns ==
    \A order2 \in Perms(TypeNames), order3 \in Perms(TypeNames) :
        ~resolveTypeDefs(unit, order2, order3, Gen).panicked

\* C16: for a unit with a self-referential struct or with structs that refer
\* to each other through pointers, resolveTypeDefs terminates (it has a
\* result, which is no panic, whatever the iteration order of the maps), and
\* afterwards the catalog has exactly one entry per declared type name and
\* each pointer field's element is the catalog entry of the name it refers
\* to.
C16_RecursiveTypes ==
    RecursiveUnit =>
        /\ pc = "resolveTypeDefs" => ResolveReturns
        /\ pc \notin {"resolveTypeDefs", "panic"} => ResolvedCatalog

\* resolveTypeDefs has run on a unit that declares the self-referential T and
\* the mutually referring A and B.
C16_Witness ==
    /\ pc = "indexPackage" /\ idx = 0
    /\ DOMAIN DeclaredTypes = {"T", "A", "B"}
    /\ typeDefs["T"].Fields[2] = PointerT(TypeRef("T"))
    /\ typeDefs["A"].Fields[1] = PointerT(TypeRef("B"))
    /\ typeDefs["B"].Fields[1] = PointerT(TypeRef("A"))

RECURSIVE Pow2(_)
Pow2(n) == IF n = 0 THEN 1 ELSE 2 * Pow2(n - 1)

\* The number of bits of a w-bit pattern that lie in limb i.
LimbBits(w, i) ==
    IF w - 16 * (i - 1) <= 0 THEN 0
    ELSE IF w - 16 * (i - 1) >= 16 THEN 16 ELSE w - 16 * (i - 1)

\* The w-bit pattern with every bit set.
FullMask(w) == [i \in 1..4 |-> Pow2(LimbBits(w, i)) - 1]

\* The limbs modulo 2^w.
Truncate(limbs, w) == [i \in 1..4 |-> limbs[i] % Pow2(LimbBits(w, i))]

RECURSIVE BitAnd(_, _)
BitAnd(a, b) ==
    IF a = 0 \/ b = 0 THEN 0
    ELSE ((a % 2) * (b % 2)) + (2 * BitAnd(a \div 2, b \div 2))

RECURSIVE BitXor(_, _)
BitXor(a, b) ==
    IF a = 0 THEN b
    ELSE IF b = 0 THEN a
    ELSE (((a % 2) + (b % 2)) % 2) + (2 * BitXor(a \div 2, b \div 2))

RECURSIVE BitOr(_, _)
BitOr(a, b) ==
    IF a = 0 THEN b
    ELSE IF b = 0 THEN a
    ELSE (((a % 2) + (b % 2)) - ((a % 2) * (b % 2))) + (2 * BitOr(a \div 2, b \div 2))

AndBits(x, y) == [i \in 1..4 |-> BitAnd(x[i], y[i])]

XorBits(x, y) == [i \in 1..4 |-> BitXor(x[i], y[i])]

OrBits(x, y) == [i \in 1..4 |-> BitOr(x[i], y[i])]

\* NOT y modulo 2^w, for a w-bit pattern y.
NotBits(y, w) == [i \in 1..4 |-> FullMask(w)[i] - y[i]]

\* The sampled w-bit patterns: none and all bits, the alternating patterns,
\* the lowest and the highest bit.
Patterns(w) ==
    { [i \in 1..4 |-> 0],
      FullMask(w),
      Truncate(<<21845, 21845, 21845, 21845>>, w),
      Truncate(<<43690, 43690, 43690, 43690>>, w),
      <<1, 0, 0, 0>>,
      [i \in 1..4 |-> IF LimbBits(w, i) > 0 /\ LimbBits(w, i + 1) = 0
                      THEN Pow2(LimbBits(w, i) - 1) ELSE 0] }

BitWidths == {1, 8, 16, 32, 64}

\* The bits an IR value computes when the globals hold the patterns env.
RECURSIVE EvalBits(_, _)
EvalBits(v, env) ==
    IF v.k = "const" THEN Truncate(v.X.limbs, v.Typ.BitSize)
    ELSE CASE v.Op = "load" -> env[v.Args[1].Name]
           [] v.Op = "and" -> AndBits(EvalBits(v.Args[1], env), EvalBits(v.Args[2], env))
           [] v.Op = "xor" -> XorBits(EvalBits(v.Args[1], env), EvalBits(v.Args[2], env))
           [] v.Op = "or" -> OrBits(EvalBits(v.Args[1], env), EvalBits(v.Args[2], env))

\* The body return a &^ b of f is lowered.
AndNotLowered ==
    /\ Len(Decls) = 2 /\ Decls[2].k = "FuncDecl" /\ LoweredDecls = 2 /\ pc # "panic"
    /\ Len(BodyOfF) = 1 /\ BodyOfF[1].k = "ReturnStmt" /\ Len(BodyOfF[1].Results) = 1
    /\ BodyOfF[1].Results[1].k = "BinaryExpr" /\ BodyOfF[1].Results[1].Op = "&^"

\* C17: the instructions that lower x &^ y compute x AND (NOT y) modulo 2^w
\* for the sampled pairs of w-bit patterns, and the constant allOnes builds
\* for the width w has exactly the w low bits set, for w in {1, 8, 16, 32, 64}.
C17_AndNot ==
    /\ \A w \in BitWidths :
          /\ allOnes(IntT(w)).err = Nil
          /\ allOnes(IntT(w)).v.X.limbs = FullMask(w)
          /\ \A xv \in Patterns(w), yv \in Patterns(w) :
                AndBits(xv, XorBits(yv, Truncate(allOnes(IntT(w)).v.X.limbs, w)))
                    = AndBits(xv, NotBits(yv, w))
    /\ AndNotLowered =>
          LET e == BodyOfF[1].Results[1]
              w == m.Globals[1].ContentType.BitSize
          IN  /\ blk[1].Term.k = "ret"
              /\ blk[1].Term.X.k = "inst" /\ blk[1].Term.X.Op = "and"
              /\ blk[1].Term.X.Typ = IntT(w)
              /\ \A xv \in Patterns(w), yv \in Patterns(w) :
                    LET env == [n \in {"x", "y"} |-> IF n = "x" THEN xv ELSE yv]
                    IN  EvalBits(blk[1].Term.X, env)
                            = AndBits(env[e.X.Name], NotBits(env[e.Y.Name], w))

\* return x &^ y on 64-bit operands is lowered to and(load x, xor(load y, -1)).
C17_Witness ==
    /\ AndNotLowered /\ pc = "done"
    /\ BodyOfF[1].Results[1].X.Name = "x" /\ BodyOfF[1].Results[1].Y.Name = "y"
    /\ m.Globals[1].ContentType = I64
    /\ blk[1].Term.k = "ret" /\ blk[1].Term.X.Op = "and"
    /\ blk[1].Term.X.Args[2].Op = "xor"
    /\ blk[1].Term.X.Args[2].Args[2].X.limbs = <<65535, 65535, 65535, 65535>>

\* The function object m.Funcs[i] is the entry of some name of the symbol
\* table.
InFuncTable(i) == \E n \in DOMAIN funcs : funcs[n] = i

\* C18: no partial output for a declaration that failed: a step of lowering
\* that reports an error leaves no block behind, and when the pipeline has
\* finished every function object of the module is in the symbol table.
C18_NoPartialOutput ==
    /\ [](pc \in {"typeDefs", "append", "done"} =>
             \A i \in 1..Len(m.Funcs) : InFuncTable(i))
    /\ [][(pc = "lowerPackage" /\ pc' # "panic" /\ Len(errs') > Len(errs)) =>
             (blk' = blk /\ m'.Funcs = m.Funcs)]_vars

\* The name is neither a function nor a global variable: lowerIdentExpr
\* fails on it.
Unresolved(goExpr) ==
    goExpr.k = "Ident" /\ ~Has(funcs, goExpr.Name) /\ ~Has(globals, goExpr.Name)

\* f is lowered, and the first statement of its body is an if statement whose
\* condition, or a switch whose tag, fails to lower.
CondErrLowered ==
    /\ Decls[Len(Decls)].Name = "f" /\ LoweredDecls = Len(Decls) /\ pc # "panic"
    /\ BodyOfF # <<>>
    /\ \/ BodyOfF[1].k = "IfStmt" /\ Unresolved(BodyOfF[1].Cond)
       \/ BodyOfF[1].k = "SwitchStmt" /\ BodyOfF[1].Tag # Nil /\ Unresolved(BodyOfF[1].Tag)

\* C19: when the condition of an if statement or the tag of a switch fails to
\* lower, the error is reported once, the statement adds no block, and the
\* statements behind it in the block are skipped: the entry block stays empty
\* and without terminator.
C19_CondErrorSkipsSiblings ==
    CondErrLowered =>
        /\ Len(errs) = 1
        /\ Len(blk) = 1
        /\ blk[1].Insts = <<>>
        /\ blk[1].Term = Nil

\* The statements have no switch, at any depth.
RECURSIVE NoSwitch(_)
NoSwitch(st) ==
    CASE st.k = "BlockStmt" -> \A i \in 1..Len(st.List) : NoSwitch(st.List[i])
      [] st.k = "IfStmt" -> NoSwitch(st.Body) /\ (st.Else # Nil => NoSwitch(st.Else))
      [] st.k = "SwitchStmt" -> FALSE
      [] OTHER -> TRUE

\* The blocks of f, in the order of its block list, and the place of a block
\* in that list.
BlocksOfF == m.Funcs[funcs["f"]].Blocks

PosInF(b) == CHOOSE i \in 1..Len(BlocksOfF) : BlocksOfF[i] = b

\* The statements of the body of f that are if statements.
TopIfs == {i \in 1..Len(BodyOfF) : BodyOfF[i].k = "IfStmt"}

\* f is lowered without error, and the only control-flow statements of its
\* body are if statements, one of them at the top level.
IfOnlyLowered ==
    /\ Decls[Len(Decls)].Name = "f" /\ LoweredDecls = Len(Decls) /\ pc # "panic"
    /\ errs = <<>>
    /\ \A i \in 1..Len(BodyOfF) : NoSwitch(BodyOfF[i])
    /\ Cardinality(TopIfs) = 1

\* The shape around the condition block c of an if statement.  The follow
\* block is the block allocated just before the true block.  The blocks
\* created for the branches are the blocks allocated after the follow block;
\* they stand in the block list between the true block and the follow block.
\* The final block of a branch is the block in front of the next branch or of
\* the follow block.
IfShapeAt(c) ==
    LET targetTrue == blk[c].Term.TargetTrue
        targetFalse == blk[c].Term.TargetFalse
        followBlock == targetTrue - 1
    IN  /\ followBlock >= 1
        /\ \A b \in {targetTrue, targetFalse, followBlock} :
              \E i \in 1..Len(BlocksOfF) : BlocksOfF[i] = b
        /\ PosInF(c) < PosInF(targetTrue) /\ PosInF(targetTrue) < PosInF(followBlock)
        /\ {BlocksOfF[i] : i \in PosInF(targetTrue)..(PosInF(followBlock) - 1)}
               = (followBlock + 1)..(followBlock + PosInF(followBlock) - PosInF(targetTrue))
        /\ \/ targetFalse = followBlock
           \/ PosInF(targetTrue) < PosInF(targetFalse) /\ PosInF(targetFalse) < PosInF(followBlock)
        /\ \A final \in {BlocksOfF[PosInF(followBlock) - 1]}
                           \cup (IF targetFalse = followBlock THEN {}
                                 ELSE {BlocksOfF[PosInF(targetFalse) - 1]}) :
              /\ blk[final].nterm = 1
              /\ blk[final].Term = TermBr(followBlock) \/ blk[final].Term.k = "ret"

\* The last statement of a branch is a return.
EndsInReturn(list) == list # <<>> /\ list[Len(list)].k = "ReturnStmt"

\* C20: every if statement lowered without error ends its condition block
\* with a conditional branch to (true block, false block) when it has an
\* else-branch and to (true block, follow block) otherwise; the final block
\* of a branch gets a branch to the follow block unless the branch ended it
\* with a return; the follow block becomes the current block and stands last
\* in the block list, behind every block created for the branches.
C20_IfShape ==
    IfOnlyLowered =>
        /\ \A b \in 1..Len(blk) : Cardinality({i \in 1..Len(BlocksOfF) : BlocksOfF[i] = b}) = 1
        /\ \A c \in 1..Len(blk) : blk[c].Term.k = "condbr" => IfShapeAt(c)
        /\ LET goIfStmt == BodyOfF[CHOOSE i \in TopIfs : TRUE]
           IN  /\ blk[1].Term.k = "condbr"
               /\ blk[1].Term.TargetTrue = 3
               /\ goIfStmt.Else = Nil <=> blk[1].Term.TargetFalse = 2
               /\ BlocksOfF[Len(BlocksOfF)] = 2
               /\ cur = 2
               /\ LET final == BlocksOfF[(IF goIfStmt.Else = Nil THEN Len(BlocksOfF)
                                          ELSE PosInF(blk[1].Term.TargetFalse)) - 1]
                  IN  IF EndsInReturn(goIfStmt.Body.List)
                      THEN blk[final].Term = TermRet(Nil)
                      ELSE blk[final].Term = TermBr(2)

\* if g { if g { return } else { h(n) } } else if g { } is lowered: seven
\* blocks behind the entry block, the follow block last.
C20_Witness ==
    /\ IfOnlyLowered /\ pc = "done"
    /\ BodyOfF[CHOOSE i \in TopIfs : TRUE].Else # Nil
    /\ BodyOfF[CHOOSE i \in TopIfs : TRUE].Else.k = "IfStmt"
    /\ Len(BodyOfF[CHOOSE i \in TopIfs : TRUE].Body.List) = 1
    /\ BodyOfF[CHOOSE i \in TopIfs : TRUE].Body.List[1].k = "IfStmt"
    /\ BodyOfF[CHOOSE i \in TopIfs : TRUE].Body.List[1].Else # Nil
    /\ blk[1].Term.k = "condbr"
    /\ BlocksOfF[Len(BlocksOfF)] = 2 /\ cur = 2
    /\ Len(BlocksOfF) = Len(blk)

\* The method declarations with one receiver that indexPackage has visited.
VisitedMethods ==
    {i \in 1..Len(Decls) :
        /\ Decls[i].k = "FuncDecl" /\ Len(Decls[i].Recv) = 1 /\ Len(Decls[i].Recv[1].Names) <= 1
        /\ \/ pc \in {"indexPackage", "panic"} /\ i <= idx
           \/ IndexComplete}

\* The parameter names of a field list, in order.
RECURSIVE FieldNames(_)
FieldNames(list) ==
    IF list = <<>> THEN <<>>
    ELSE (IF Len(list[1].Names) > 0 THEN list[1].Names ELSE <<"">>) \o FieldNames(Tail(list))

\* C21: a visited method declaration with one receiver is registered under
\* the name '<receiver type name>.<method name>', with the receiver as the
\* first parameter in front of the declared parameters; indexing it raises no
\* panic and reports no duplicate for methods of different receiver types.
C21_MethodIndexed ==
    \A i \in VisitedMethods :
        /\ pc # "panic"
        /\ Has(funcs, MethodName(Decls[i].Recv[1].Type.Name, Decls[i].Name))
        /\ LET f == m.Funcs[funcs[MethodName(Decls[i].Recv[1].Type.Name, Decls[i].Name)]]
           IN  [p \in 1..Len(f.Params) |-> f.Params[p].Name]
                   = FieldNames(Decls[i].Recv) \o FieldNames(Decls[i].Params)

\* The body return x op y of f, with an arithmetic operator, is lowered.
ArithLowered ==
    /\ Len(Decls) = 3 /\ Decls[3].k = "FuncDecl" /\ LoweredDecls = 3 /\ pc # "panic"
    /\ Len(BodyOfF) = 1 /\ BodyOfF[1].k = "ReturnStmt" /\ Len(BodyOfF[1].Results) = 1
    /\ BodyOfF[1].Results[1].k = "BinaryExpr" /\ BodyOfF[1].Results[1].Op \in ArithOps

\* The class of an operand type: integer, float or other.
OperandClass(t) ==
    IF isIntOrIntVectorType(t) THEN "int"
    ELSE IF isFloatOrFloatVectorType(t) THEN "float" ELSE "other"

ArithInsts ==
    {"add", "sub", "mul", "sdiv", "srem", "udiv", "urem", "fadd", "fsub", "fmul", "fdiv", "frem"}

InvalidOperandErrors ==
    {e \in 1..Len(errs) : errs[e].msg = "invalid operand type to binary expression"}

\* C22: x op y for an arithmetic operator emits the integer instruction
\* (signed for / and %) when both operands are integers, the float
\* instruction when both are floats, and in every other case (an operand of
\* another type on either side, or operands of different classes) reports an
\* invalid operand type and emits no arithmetic instruction.
C22_ArithVariants ==
    ArithLowered =>
        LET op == BodyOfF[1].Results[1].Op
            cx == OperandClass(m.Globals[1].ContentType)
            cy == OperandClass(m.Globals[2].ContentType)
            emitted == {p \in 1..Len(blk[1].Insts) : blk[1].Insts[p].Op \in ArithInsts}
        IN  IF cx = cy /\ cx # "other"
            THEN /\ errs = <<>>
                 /\ Cardinality(emitted) = 1
                 /\ \A p \in emitted :
                       blk[1].Insts[p].Op = (IF cx = "int" THEN IntArith(op) ELSE FloatArith(op))
                 /\ IntArith("/") = "sdiv" /\ IntArith("%") = "srem"
            ELSE /\ Cardinality(InvalidOperandErrors) = 1 /\ Len(errs) = 1
                 /\ emitted = {}

\* The function generator of f as the state holds it after the body of f was
\* lowered.
FuncGenOfF ==
    [blk |-> blk, Blocks |-> BlocksOfF, cur |-> cur, errs |-> errs, typeDefs |-> typeDefs,
     panicked |-> FALSE]

\* f is lowered and its function generator has a current block.
BodyLowered ==
    /\ Has(funcs, "f") /\ Decls[Len(Decls)].Name = "f"
    /\ LoweredDecls = Len(Decls) /\ pc # "panic" /\ cur >= 1

\* The operands of the logical expressions: a variable, a negation, a
\* comparison, a comparison of a call.
LogicOperands ==
    {G, UnaryExpr("!", G), BinaryExpr(N, "==", One), BinaryExpr(CallH(N), "<", One)}

LogicExprs == {BinaryExpr(a, op, b) : a \in LogicOperands, op \in {"&&", "||"}, b \in LogicOperands}

\* s1 is s0 but for instructions appended to the current block of s0: no
\* block was allocated or attached, the cursor is where it was, and no
\* terminator was set.
SameControlFlow(s0, s1) ==
    /\ s1.cur = s0.cur
    /\ Len(s1.blk) = Len(s0.blk)
    /\ s1.Blocks = s0.Blocks
    /\ \A b \in 1..Len(s0.blk) :
          /\ s1.blk[b].Term = s0.blk[b].Term /\ s1.blk[b].nterm = s0.blk[b].nterm
          /\ b # s0.cur => s1.blk[b] = s0.blk[b]
    /\ Len(s1.blk[s0.cur].Insts) >= Len(s0.blk[s0.cur].Insts)
    /\ SubSeq(s1.blk[s0.cur].Insts, 1, Len(s0.blk[s0.cur].Insts)) = s0.blk[s0.cur].Insts

\* C23: lowering an expression into the function generator of f, right after
\* the body of f was lowered, leaves the control-flow state as it was, and a && b and a || b emit the instructions
\* of a, then those of b, then the and / or of the two values, into the
\* current block.
C23_ExprFrame ==
    (BodyLowered /\ pc = "lowerPackage") =>
        /\ \A e \in IntExprs(1) \cup BoolExprs \cup LogicExprs :
              SameControlFlow(FuncGenOfF, lowerExpr(e, FuncGenOfF).s)
        /\ \A e \in LogicExprs :
              LET ra == lowerExprUse(e.X, FuncGenOfF)
                  rb == lowerExprUse(e.Y, ra.s)
                  r == lowerExpr(e, FuncGenOfF)
              IN  /\ r.err = Nil /\ ~r.s.panicked
                  /\ Len(ra.s.blk[cur].Insts) > Len(blk[cur].Insts)
                  /\ Len(rb.s.blk[cur].Insts) > Len(ra.s.blk[cur].Insts)
                  /\ r.s.blk[cur].Insts = rb.s.blk[cur].Insts \o <<r.v>>
                  /\ r.v.Op = (IF e.Op = "&&" THEN "and" ELSE "or")
                  /\ r.v.Args = <<ra.v, rb.v>>

\* return n == 1 && g is lowered: load n, icmp, load g, and in the entry
\* block, which is the only block.
C23_Witness ==
    /\ BodyLowered /\ pc = "done"
    /\ BodyOfF = <<ReturnStmt(<<BinaryExpr(BinaryExpr(N, "==", One), "&&", G)>>)>>
    /\ Len(blk) = 1 /\ cur = 1
    /\ [p \in 1..Len(blk[1].Insts) |-> blk[1].Insts[p].Op] = <<"load", "icmp", "load", "and">>
    /\ blk[1].Term.k = "ret"

MaxPassDecls == 3   \* declarations of a package lowered in one pass

PassNames == {"f", "g", "h"}

\* func name() { } and func name() { callee() }
PassDecl(name, body) == FuncDecl(name, <<>>, <<>>, <<>>, BlockStmt(body))

PassBodies == {<<>>} \cup {<<ExprStmt(CallExpr(Ident(c), <<>>))>> : c \in PassNames}

PassPool ==
    {PassDecl(name, body) : name \in PassNames, body \in PassBodies}
        \cup {GenDecl("var", <<ValueSpec(<<"n">>, IntType)>>)}

PassUnits == {<<decls>> : decls \in SeqsUpTo(PassPool, MaxPassDecls) \ {<<>>}}

\* NewGenerator of lower.go: the three tables are empty.
NewGeneratorPass(u) ==
    /\ unit = u
    /\ pc = "lowerPackage"
    /\ idx = 0
    /\ typeDefs = EmptyMap
    /\ globals = EmptyMap
    /\ funcs = EmptyMap
    /\ m = [Funcs |-> <<>>, Globals |-> <<>>, TypeDefs |-> <<>>]
    /\ blk = <<>>
    /\ cur = 0
    /\ errs = <<>>
    /\ modules = <<>>

\* lowerFuncDecl of lower.go goes on to the body when the function was added
\* to gen.new.funcs (the name was not present) and the declaration has one.
\* g is the generator after the declaration was added.
EntersBody(old, g) ==
    /\ old.k = "FuncDecl"
    /\ ~g.panicked
    /\ DOMAIN g.funcs # DOMAIN funcs
    /\ old.Body # Nil

\* One iteration of the loop of lowerFile, up to the body of a function:
\* lowerFuncDecl computes the signature, calls gen.m.NewFunc and sets
\* gen.new.funcs[funcName] as indexFuncDecl does; lowerGenDecl adds the
\* globals of a variable declaration as indexGenDecl does.
PassDeclared(old, g) ==
    /\ SetGen(g, blk, IF EntersBody(old, g) THEN "lowerFuncBody" ELSE "lowerPackage")
    /\ idx' = IF EntersBody(old, g) THEN idx ELSE idx + 1
    /\ UNCHANGED <<unit, cur, modules>>

PassDeclare ==
    /\ pc = "lowerPackage"
    /\ idx < Len(Decls)
    /\ PassDeclared(Decls[idx + 1], indexDecl(Decls[idx + 1], Gen))

\* The end of lowerFuncDecl of lower.go: fgen.lowerFuncBody(old.Body) with
\* fgen.f the function just added.
PassBody ==
    /\ pc = "lowerFuncBody"
    /\ SetLowered(lowerFuncDecl(Decls[idx + 1], Gen, blk))
    /\ idx' = idx + 1
    /\ UNCHANGED <<unit, modules>>

NextPass ==
    \/ PassDeclare
    \/ PassBody
    \/ LowerReturn
    \/ EmitTypeDefs

InitPass == \E u \in PassUnits : NewGeneratorPass(u)

\* Generator.Lower of lower.go over the packages of PassUnits.
SpecPass == InitPass /\ [][NextPass]_vars

\* The declaration calls the function of the given name.
CallsName(old, name) ==
    /\ old.k = "FuncDecl" /\ old.Body # Nil
    /\ \E p \in 1..Len(old.Body.List) :
          /\ old.Body.List[p].k = "ExprStmt"
          /\ old.Body.List[p].X.k = "CallExpr"
          /\ old.Body.List[p].X.Fun = Ident(name)

\* No two declarations of the package declare the same name.
PassDistinct ==
    \A i, j \in 1..Len(Decls) :
        (Decls[i].k = "FuncDecl" /\ Decls[j].k = "FuncDecl" /\ Decls[i].Name = Decls[j].Name)
            => i = j

\* C25: a forward reference resolves.  When Generator.Lower has lowered the
\* body of a function F that calls a function G declared after F in the
\* same package, no unresolved-identifier error names G and the call
\* instruction of F has the function G as its callee.
C25_ForwardReference ==
    \A i, j \in 1..Len(Decls) :
        (/\ PassDistinct
         /\ i < j /\ idx >= i
         /\ Decls[j].k = "FuncDecl"
         /\ CallsName(Decls[i], Decls[j].Name))
        => /\ \A e \in 1..Len(errs) :
                 ~(/\ errs[e].msg = "unable to locate top-level definition of identifier"
                   /\ errs[e].Name = Decls[j].Name)
           /\ \E b \in 1..Len(blk) : \E p \in 1..Len(blk[b].Insts) :
                 /\ blk[b].Insts[p].Op = "call"
                 /\ blk[b].Insts[p].Callee.k = "func"
                 /\ blk[b].Insts[p].Callee.Name = Decls[j].Name

\* The type names with a catalog entry when the third loop of resolveTypeDefs
\* runs: the builtin ones of NewGenerator and the declared ones.
KnownTypeNames == TypeNames \cup {"int", "string"}

\* The type names without catalog entry the type expression refers to,
\* directly, through a pointer or in a field.
RECURSIVE UnknownIn(_)
UnknownIn(old) ==
    CASE old.k = "Ident" -> IF old.Name \in KnownTypeNames THEN {} ELSE {old.Name}
      [] old.k = "StarExpr" -> UnknownIn(old.X)
      [] old.k = "StructType" ->
            UNION {UnknownIn(old.Fields[i].Type) : i \in 1..Len(old.Fields)}
      [] OTHER -> {}

\* The declared types whose definition refers to a type name without catalog
\* entry.
UnknownDecls ==
    {n \in TypeNames : UnknownIn(CollectTypeDecls(Decls, EmptyMap)[n]) # {}}

\* resolveTypeDefs has ended, by returning or by a panic.
ResolveEnded == pc \in {"indexPackage", "panic"} /\ idx = 0

\* C26: an unknown type name is reported.  When resolveTypeDefs has run over
\* a package in which declared types refer, directly, through a pointer or
\* in a field, to a type name without catalog entry, it has returned (the
\* remaining declarations were resolved) and the error list holds one
\* unknown-type error for every such declaration.
C26_UnknownTypeReported ==
    (ResolveEnded /\ UnknownDecls # {})
        => /\ pc = "indexPackage"
           /\ Len(errs) = Cardinality(UnknownDecls)
           /\ \A e \in 1..Len(errs) :
                 /\ errs[e].msg = "unable to locate type definition of named type"
                 /\ \E n \in UnknownDecls :
                       errs[e].Name \in UnknownIn(CollectTypeDecls(Decls, EmptyMap)[n])

\* The body of f ends in a switch statement without default clause behind
\* expression statements, and lowerFuncBody ran on it.
NoDefaultLowered ==
    /\ Decls[Len(Decls)].Name = "f" /\ LoweredDecls = Len(Decls) /\ pc # "panic"
    /\ BodyOfF # <<>> /\ OnlyExprStmts(SubSeq(BodyOfF, 1, Len(BodyOfF) - 1))
    /\ LastStmt.k = "SwitchStmt" /\ LastStmt.Body.List # <<>>
    /\ \A i \in 1..Len(LastStmt.Body.List) : LastStmt.Body.List[i].List # <<>>

\* The end of the dispatch chain that starts in block b: the block reached
\* over the false targets of the conditional branches.
RECURSIVE LastProbe(_, _)
LastProbe(b, fuel) ==
    IF fuel = 0 \/ blk[b].Term.k # "condbr" THEN b
    ELSE LastProbe(blk[b].Term.TargetFalse, fuel - 1)

\* C27: a switch without default clause falls through to the follow block.
\* The last probe block of the dispatch chain, reached from the block that
\* was current when the switch started when every comparison fails, ends in
\* a branch to the follow block.
C27_NoDefaultReachesFollow ==
    NoDefaultLowered => blk[LastProbe(1, MaxCases)].Term = TermBr(cur)

\* The blocks a terminator branches to.
TargetsOf(term) ==
    CASE term.k = "br" -> {term.Target}
      [] term.k = "condbr" -> {term.TargetTrue, term.TargetFalse}
      [] OTHER -> {}

\* The clauses of the switch statement that have a match list.
MatchClauses(sw) == {i \in 1..Len(sw.Body.List) : sw.Body.List[i].List # <<>>}

\* The body of f ends, behind expression statements, in a switch statement
\* whose default clause is not its last clause, and lowerFuncBody ran on it.
DefaultEarlyLowered ==
    /\ Decls[Len(Decls)].Name = "f" /\ LoweredDecls = Len(Decls) /\ pc # "panic"
    /\ BodyOfF # <<>> /\ OnlyExprStmts(SubSeq(BodyOfF, 1, Len(BodyOfF) - 1))
    /\ LastStmt.k = "SwitchStmt"
    /\ \E i \in 1..Len(LastStmt.Body.List) - 1 : LastStmt.Body.List[i].List = <<>>

\* The case block of clause i of the switch the body of f ends in: the blocks
\* of f are the entry block, one probe block for every clause with a match
\* list, the case blocks in the order of the clauses and the follow block.
CaseBlockOf(i) ==
    m.Funcs[funcs["f"]].Blocks[1 + Cardinality(MatchClauses(LastStmt)) + i]

\* C28: a default clause in front of other clauses.  The dispatch chain has
\* one probe for every clause with a match list, the case block of the
\* default clause is the target of the branch that ends the chain, and every
\* case block is the target of the terminator of some block of f.
C28_DefaultNotLast ==
    DefaultEarlyLowered =>
        LET bs == m.Funcs[funcs["f"]].Blocks
            n == Len(LastStmt.Body.List)
        IN  /\ Len(bs) = 2 + Cardinality(MatchClauses(LastStmt)) + n
            /\ \A i \in 1..n :
                  LastStmt.Body.List[i].List = <<>> =>
                      blk[LastProbe(1, MaxCases)].Term = TermBr(CaseBlockOf(i))
            /\ \A i \in 1..n :
                  \E b \in 1..Len(bs) : CaseBlockOf(i) \in TargetsOf(blk[bs[b]].Term)

\* The body of f is switch x { case y: } followed by return x == y, and
\* lowerFuncBody ran on it without panic.
EqualLowered ==
    /\ Len(Decls) = 3 /\ Decls[3].k = "FuncDecl" /\ LoweredDecls = 3 /\ pc # "panic"
    /\ Len(BodyOfF) = 2 /\ BodyOfF[1].k = "SwitchStmt" /\ BodyOfF[2].k = "ReturnStmt"
    /\ Len(BodyOfF[2].Results) = 1
    /\ BodyOfF[2].Results[1].k = "BinaryExpr" /\ BodyOfF[2].Results[1].Op = "=="

\* The compare instructions of block b.
ComparesOf(b) == {p \in 1..Len(blk[b].Insts) : blk[b].Insts[p].Op \in {"icmp", "fcmp"}}

\* C29: equality is lowered consistently.  For x and y of one type, the
\* comparison of the case y of switch x (lowerEqual, in the entry block) and
\* the expression x == y (in the follow block) are the same compare
\* instruction: icmp eq for integer operands, fcmp oeq for float operands.
C29_EqualConsistent ==
    EqualLowered =>
        /\ ComparesOf(1) # {} /\ ComparesOf(cur) # {}
        /\ \A p \in ComparesOf(1), q \in ComparesOf(cur) :
              /\ blk[1].Insts[p].Op = blk[cur].Insts[q].Op
              /\ blk[1].Insts[p].Pred = blk[cur].Insts[q].Pred
              /\ OperandClass(blk[cur].Insts[q].Args[1].Typ) = "int"
                    => blk[cur].Insts[q].Op = "icmp" /\ blk[cur].Insts[q].Pred = "eq"
              /\ OperandClass(blk[cur].Insts[q].Args[1].Typ) = "float"
                    => blk[cur].Insts[q].Op = "fcmp" /\ blk[cur].Insts[q].Pred = "oeq"

\* The block list bs of a function is well formed: its first block is the
\* only one named entry, no block is in it twice and every branch of a block
\* of the list goes to a block of the list.
WellFormed(bs) ==
    /\ blk[bs[1]].Name = "entry"
    /\ \A i \in 2..Len(bs) : blk[bs[i]].Name # "entry"
    /\ \A i, j \in 1..Len(bs) : bs[i] = bs[j] => i = j
    /\ \A i \in 1..Len(bs) : TargetsOf(blk[bs[i]].Term) \subseteq {bs[j] : j \in 1..Len(bs)}

\* The function names of the package are declared once, but for the name
\* init, which a Go package may declare any number of times.
DeclaredOnce ==
    \A i, j \in 1..Len(Decls) :
        (/\ i # j /\ Decls[i].k = "FuncDecl" /\ Decls[j].k = "FuncDecl"
         /\ Decls[i].Name = Decls[j].Name)
            => Decls[i].Name = "init"

\* C30: the block list of a function is well formed after lowerFuncBody,
\* whatever statements the body nests and whether or not errors were
\* reported.
C30_BlockListWellFormed ==
    (pc # "panic" /\ DeclaredOnce)
        => \A f \in 1..Len(m.Funcs) :
              m.Funcs[f].Blocks # <<>> => WellFormed(m.Funcs[f].Blocks)
====
